---- MODULE Spec2Model ----
(***************************************************************************)
(* Model of nova/conductor/tasks/live_migrate.py: one LiveMigrationTask    *)
(* executing against a host registry (db), a scheduler and compute hosts.  *)
(* Every external call the task makes is appended to the log `calls`, so   *)
(* that ordering properties are state predicates over the log.             *)
(***************************************************************************)
EXTENDS Integers, Sequences, FiniteSets, TLC

\* ------------------------------------------------------------------ bounds

\* Number of compute hosts known to the deployment (host ids 1..NumHosts).
NumHosts == 3
\* Largest non-negative value of CONF.migrate_max_retries that is explored.
MaxRetriesConf == 1

Hosts == 1 .. NumHosts

\* ------------------------------------------------------- program constants

\* `None` for a host: the request's missing destination and the loop's
\* `host = None`.
NoHost == 0
\* `None` for migrate_data (LiveMigrationTask.__init__).
NoData == "None"
\* power_state.RUNNING and one other power state.
RUNNING == "RUNNING"
PowerStates == {RUNNING, "SHUTDOWN"}
\* CONF.migrate_max_retries: -1 is "unlimited", 0 is "no retries"; the option
\* is an IntOpt, so any other integer can be configured as well.
RetryConfValues == {-2, -1} \cup (0 .. MaxRetriesConf)
\* instance.memory_mb: unset/zero, or a positive requirement.
InstanceMemoryValues == {0, 2}
\* Opaque payloads a destination's precheck may hand back.
MigrateDataValues == {"md_a", "md_b"}

\* ------------------------------------------------------------ host registry
\* What db.service_get_by_compute_host / db.aggregate_get_by_host and the
\* servicegroup API answer for one host.  `known` is FALSE when the service
\* record does not exist (the db call raises NotFound).  The aggregate's
\* ram_allocation_ratio is kept in tenths (15 is "1.5") and lies in [1.0, 2.0).

Aggr(name, ratio_x10) == [name |-> name, ram_allocation_ratio_x10 |-> ratio_x10]

Facts(known, up, aggrs, total, used, htype, hversion) ==
    [known |-> known, up |-> up, aggregates |-> aggrs,
     memory_mb |-> total, memory_mb_used |-> used,
     hypervisor_type |-> htype, hypervisor_version |-> hversion]

FactsGood        == Facts(TRUE,  TRUE,  <<Aggr("agg_a", 15)>>, 4, 3, "kvm", 2)
FactsMissing     == Facts(FALSE, FALSE, <<Aggr("agg_a", 15)>>, 4, 3, "kvm", 2)
FactsDown        == Facts(TRUE,  FALSE, <<Aggr("agg_a", 15)>>, 4, 3, "kvm", 2)
FactsNoAggregate == Facts(TRUE,  TRUE,  <<>>,                  4, 3, "kvm", 2)
FactsTwoAggregates ==
    Facts(TRUE, TRUE, <<Aggr("agg_a", 15), Aggr("agg_b", 10)>>, 4, 3, "kvm", 2)
FactsLowMemory   == Facts(TRUE,  TRUE,  <<Aggr("agg_b", 10)>>, 4, 2, "kvm", 2)
FactsOtherType   == Facts(TRUE,  TRUE,  <<Aggr("agg_a", 15)>>, 4, 3, "xen", 2)
FactsOldVersion  == Facts(TRUE,  TRUE,  <<Aggr("agg_a", 15)>>, 4, 3, "kvm", 1)

HostFactsChoices ==
    {FactsGood, FactsMissing, FactsDown, FactsNoAggregate, FactsTwoAggregates,
     FactsLowMemory, FactsOtherType, FactsOldVersion}

\* ------------------------------------------------------------------- state

VARIABLES
    registry,        \* host id -> facts (db + servicegroup)
    conf,            \* CONF.migrate_max_retries
    instance,        \* the instance being migrated
    request,         \* the destination the caller asked for (NoHost: none)
    source,          \* self.source
    destination,     \* self.destination
    migrate_data,    \* self.migrate_data
    attempted_hosts, \* _find_destination's local list
    host,            \* _find_destination's local candidate
    pc,              \* position of the task in execute()
    raised,          \* the exception that left execute(), if any
    calls,           \* log of the external calls made so far
    rollback_raised, \* the exception rollback() raised to its caller, if called
    block_migration, \* self.block_migration
    parked,          \* a second LiveMigrationTask, suspended at a call boundary
    ftu,             \* FaultToleranceUsageController: one _extend call
    netapp,          \* NetAppISCSIDriver: the filer and one driver call
    auth,            \* NovaKeystoneContext: one request through the middleware
    live             \* registry updates made while the task runs, and the
                     \* locals of the running task's check that is in progress

\* The components other than the task that is running.
others == <<parked, ftu, netapp, auth, live>>

\* What no step of execute() changes besides its inputs.
rest == <<others, block_migration, rollback_raised>>

vars == <<registry, conf, instance, request, source, destination, migrate_data,
          attempted_hosts, host, pc, raised, calls, rollback_raised,
          block_migration, others>>

\* The other components when they are not part of a specification.
NoTask == [task |-> 0]
Idle == [pc |-> "idle"]
\* A local that is not bound.
NoInfo == [hypervisor_type |-> "None", hypervisor_version |-> -1]
\* No registry update made, no check in progress.  updates counts the
\* registry updates and last_update holds the host of the latest one and the
\* facts it replaced; ram_ratio, total and used are the locals of
\* _check_destination_has_enough_memory, source_info that of
\* _check_compatible_with_source_hypervisor; snapshots are the (total, used)
\* pairs the destination has had since the memory check began.
NoLive == [updates |-> 0, last_update |-> <<>>,
           ram_ratio_x10 |-> -1, total |-> -1, used |-> -1,
           snapshots |-> {}, source_info |-> NoInfo]
OthersIdle ==
    /\ parked = NoTask
    /\ ftu = Idle
    /\ netapp = Idle
    /\ auth = Idle
    /\ live = NoLive

NotRaised == [kind |-> "None", host |-> NoHost, reason |-> "None", agg_name |-> <<>>]

Exc(kind, h, reason, names) ==
    [kind |-> kind, host |-> h, reason |-> reason, agg_name |-> names]

\* One external call: its operation, the host it is about (for the scheduler:
\* the host returned), the ignore_hosts and migrate_data it carried or
\* returned, and the exception it raised ("None": it returned).
Call(op, h, ignore, data, exc) ==
    [op |-> op, host |-> h, ignore_hosts |-> ignore, migrate_data |-> data,
     exc |-> exc, ok |-> (exc = "None"), src |-> NoHost,
     block_migration |-> FALSE]

\* compute_rpcapi.live_migration(host=source, dest=..., block_migration=...,
\* migrate_data=...): the call is cast to the source host.
TriggerCall(src, dest, block, data, exc) ==
    [Call("live_migration", dest, <<>>, data, exc)
        EXCEPT !.src = src, !.block_migration = block]

DbServiceOf(reg, h) ==
    Call("service_get_by_compute_host", h, <<>>, NoData,
         IF reg[h].known THEN "None" ELSE "NotFound")
DbService(h)   == DbServiceOf(registry, h)
DbAggregate(h) == Call("aggregate_get_by_host", h, <<>>, NoData, "None")

\* An exception leaves execute(): the task stops.
Raise(e) ==
    /\ pc' = "failed"
    /\ raised' = e

\* LiveMigrationTask.__init__ applied to every request of the bounded domain.
Init ==
    /\ registry \in [Hosts -> HostFactsChoices]
    /\ conf \in RetryConfValues
    \* host ids are interchangeable: the instance runs on host 1
    /\ instance \in [host : {1}, power_state : PowerStates,
                     memory_mb : InstanceMemoryValues]
    /\ request \in Hosts \cup {NoHost}
    /\ source = instance.host
    /\ destination = request
    /\ migrate_data = NoData
    /\ attempted_hosts = <<>>
    /\ host = NoHost
    /\ pc = "check_instance_is_running"
    /\ raised = NotRaised
    /\ calls = <<>>
    /\ rollback_raised = "None"
    /\ block_migration = FALSE
    /\ OthersIdle

\* ------------------------------------------------ checks as pure functions

\* nova.exception class hierarchy as far as `except exception.Invalid` needs
\* it: the hypervisor exceptions and the rejections a remote precheck reports
\* as Invalid are Invalid; NotFound (db), RemoteError and the rest are not.
IsInvalid(kind) ==
    kind \in {"InvalidHypervisorType", "DestinationHypervisorTooOld", "Invalid"}

\* Mutant: the servicegroup answer is not consulted.
CheckHostIsUpVerdict_IgnoresServiceGroup(reg, h) ==
    IF ~reg[h].known THEN "ComputeServiceUnavailable" ELSE "ok"

\* _check_host_is_up: NotFound from the db, or a service that is not up.
CheckHostIsUpVerdict(reg, h) ==
    IF ~reg[h].known THEN "ComputeServiceUnavailable"
    ELSE IF ~reg[h].up THEN "ComputeServiceUnavailable"
    ELSE "ok"

\* Mutant: a host in several aggregates is treated with its first aggregate.
GetAggregateMetadata_TakesFirst(reg, dest) ==
    LET aggregate_list == reg[dest].aggregates IN
    IF Len(aggregate_list) >= 1
      THEN [kind |-> "ok", reason |-> "None", agg_name |-> <<>>]
    ELSE [kind |-> "MigrationPreCheckError", reason |-> "not_in_any_aggregate",
          agg_name |-> <<>>]

\* _get_aggregate_metadata: the exception it raises, or kind "ok" with the
\* single aggregate.  With several aggregates the raise sits inside the for
\* loop, so agg_name holds the first name only.
GetAggregateMetadata(reg, dest) ==
    LET aggregate_list == reg[dest].aggregates IN
    IF Len(aggregate_list) = 1
      THEN [kind |-> "ok", reason |-> "None", agg_name |-> <<>>]
    ELSE IF Len(aggregate_list) > 1
      THEN [kind |-> "MigrationPreCheckError", reason |-> "more_than_one_aggregate",
            agg_name |-> <<aggregate_list[1].name>>]
    ELSE [kind |-> "MigrationPreCheckError", reason |-> "not_in_any_aggregate",
          agg_name |-> <<>>]

\* The exact value of total * ram_ratio - used, in tenths of a MB.
AvailX10(total, ratio_x10, used) ==
    LET real_total == total * ratio_x10
    IN  real_total - 10 * used

\* The largest power of two that is at most n (n >= 1): the binade of n.
RECURSIVE Pow2Floor(_)
Pow2Floor(n) == IF n < 2 THEN 1 ELSE 2 * Pow2Floor(n \div 2)

\* float(ratio) - ratio for a ratio in [1.0, 2.0) written with one decimal,
\* in tenths of an ulp (2^-52): float() rounds ratio * 2^52 to the nearest
\* integer, and 2^52 mod 10 = 6.
FloatParseExcess(ratio_x10) ==
    LET rem == (6 * ratio_x10) % 10 IN
    IF rem < 5 THEN 0 - rem ELSE 10 - rem

\* `total * ram_ratio` in doubles when total * ratio is a whole number N: the
\* exact product of total and float(ratio) is N + total * excess / 10 ulps of
\* 1.0, and it rounds to the double above N when that is more than half an
\* ulp of N (a tie goes to N, whose mantissa is even).
ProductRoundsUp(total, ratio_x10) ==
    /\ (total * ratio_x10) % 10 = 0
    /\ total * FloatParseExcess(ratio_x10)
          > 5 * Pow2Floor((total * ratio_x10) \div 10)

\* `avail <= mem_inst` in doubles.  mem_inst and used are integers: away from
\* a whole number the product is at least 0.1 from mem_inst + used and
\* rounding cannot change the comparison; at a whole number it can, when the
\* product rounds up.
AvailAtMost(total, ratio_x10, used, mem_inst) ==
    \/ AvailX10(total, ratio_x10, used) < 10 * mem_inst
    \/ /\ AvailX10(total, ratio_x10, used) = 10 * mem_inst
       /\ ~ProductRoundsUp(total, ratio_x10)

\* `if not mem_inst or avail <= mem_inst`, on the locals total, ram_ratio and
\* used as the three db calls of the check left them.
LackOfMemory(total, ratio_x10, used, mem_inst) ==
    \/ mem_inst = 0
    \/ AvailAtMost(total, ratio_x10, used, mem_inst)

\* service_ref['compute_node'][0] as far as the hypervisor check reads it.
ComputeInfo(facts) ==
    [hypervisor_type |-> facts.hypervisor_type,
     hypervisor_version |-> facts.hypervisor_version]

\* Mutant: the versions are compared before the types.
HypervisorVerdict_VersionFirst(source_info, destination_info) ==
    IF source_info.hypervisor_version > destination_info.hypervisor_version
      THEN "DestinationHypervisorTooOld"
    ELSE IF source_info.hypervisor_type # destination_info.hypervisor_type
      THEN "InvalidHypervisorType"
    ELSE "ok"

\* _check_compatible_with_source_hypervisor once both compute nodes are
\* fetched: the comparison of the types, then that of the versions.
HypervisorVerdict(source_info, destination_info) ==
    IF source_info.hypervisor_type # destination_info.hypervisor_type
      THEN "InvalidHypervisorType"
    ELSE IF source_info.hypervisor_version > destination_info.hypervisor_version
      THEN "DestinationHypervisorTooOld"
    ELSE "ok"

\* scheduler_rpcapi.select_hosts: the hosts the scheduler may rank first when
\* told to ignore `ignore_hosts`.
SelectHostsAnswers(ignore_hosts) ==
    Hosts \ {ignore_hosts[i] : i \in 1 .. Len(ignore_hosts)}

\* What a remote call may raise besides an Invalid.
RemoteFailures == {"RemoteError"}
\* compute_rpcapi.check_can_live_migrate_destination: raises, or returns data.
PrecheckFailures == {"Invalid"} \cup RemoteFailures

\* ----------------------------------------------------------------- execute

\* Mutant: the power state is not checked.
CheckInstanceIsRunning_NoCheck ==
    /\ pc = "check_instance_is_running"
    /\ pc' = "check_source_is_up"
    /\ UNCHANGED <<rest, registry, conf, instance, request, source, destination,
                   migrate_data, attempted_hosts, host, raised, calls>>

\* execute(): self._check_instance_is_running()
CheckInstanceIsRunning ==
    /\ pc = "check_instance_is_running"
    /\ IF instance.power_state # RUNNING
         THEN Raise(Exc("InstanceNotRunning", NoHost, "None", <<>>))
         ELSE pc' = "check_source_is_up" /\ UNCHANGED raised
    /\ UNCHANGED <<rest, registry, conf, instance, request, source, destination,
                   migrate_data, attempted_hosts, host, calls>>

\* execute(): self._check_host_is_up(self.source)
CheckSourceIsUp ==
    /\ pc = "check_source_is_up"
    /\ calls' = Append(calls, DbService(source))
    /\ IF CheckHostIsUpVerdict(registry, source) # "ok"
         THEN Raise(Exc(CheckHostIsUpVerdict(registry, source), source, "None", <<>>))
         ELSE pc' = "choose_destination" /\ UNCHANGED raised
    /\ UNCHANGED <<rest, registry, conf, instance, request, source, destination,
                   migrate_data, attempted_hosts, host>>

\* Mutant: a requested destination is dispatched to without validation.
ChooseDestinationPath_SkipsValidation ==
    /\ pc = "choose_destination"
    /\ IF destination = NoHost
         THEN /\ attempted_hosts' = <<source>>
              /\ host' = NoHost
              /\ pc' = "check_not_over_max_retries"
         ELSE /\ pc' = "live_migration"
              /\ UNCHANGED <<attempted_hosts, host>>
    /\ UNCHANGED <<rest, registry, conf, instance, request, source,
                   destination, migrate_data, raised, calls>>

\* execute(): `if not self.destination` and, on the selection path, the
\* start of _find_destination (attempted_hosts = [self.source], host = None).
\* The image metadata and the flavor read there only fill the request_spec
\* handed to the scheduler and are not part of the state.
ChooseDestinationPath ==
    /\ pc = "choose_destination"
    /\ IF destination = NoHost
         THEN /\ attempted_hosts' = <<source>>
              /\ host' = NoHost
              /\ pc' = "check_not_over_max_retries"
         ELSE /\ pc' = "check_destination_is_not_source"
              /\ UNCHANGED <<attempted_hosts, host>>
    /\ UNCHANGED <<rest, registry, conf, instance, request, source, destination,
                   migrate_data, raised, calls>>

\* ------------------------------------------- _check_requested_destination

\* Mutant: the destination is not compared with the source.
CheckDestinationIsNotSource_NoCheck ==
    /\ pc = "check_destination_is_not_source"
    /\ pc' = "check_destination_is_up"
    /\ UNCHANGED <<rest, registry, conf, instance, request, source, destination,
                   migrate_data, attempted_hosts, host, raised, calls>>

CheckDestinationIsNotSource ==
    /\ pc = "check_destination_is_not_source"
    /\ IF destination = source
         THEN Raise(Exc("UnableToMigrateToSelf", destination, "None", <<>>))
         ELSE pc' = "check_destination_is_up" /\ UNCHANGED raised
    /\ UNCHANGED <<rest, registry, conf, instance, request, source, destination,
                   migrate_data, attempted_hosts, host, calls>>

\* Mutant: the capacity check is left out of the sequence.
CheckDestinationIsUp_SkipsCapacity ==
    /\ pc = "check_destination_is_up"
    /\ calls' = Append(calls, DbService(destination))
    /\ IF CheckHostIsUpVerdict(registry, destination) # "ok"
         THEN Raise(Exc(CheckHostIsUpVerdict(registry, destination), destination,
                        "None", <<>>))
         ELSE pc' = "check_compatible_with_source_hypervisor" /\ UNCHANGED raised
    /\ UNCHANGED <<rest, registry, conf, instance, request, source, destination,
                   migrate_data, attempted_hosts, host>>

CheckDestinationIsUp ==
    /\ pc = "check_destination_is_up"
    /\ calls' = Append(calls, DbService(destination))
    /\ IF CheckHostIsUpVerdict(registry, destination) # "ok"
         THEN Raise(Exc(CheckHostIsUpVerdict(registry, destination), destination,
                        "None", <<>>))
         ELSE pc' = "check_destination_has_enough_memory" /\ UNCHANGED raised
    /\ UNCHANGED <<rest, registry, conf, instance, request, source, destination,
                   migrate_data, attempted_hosts, host>>

\* _check_destination_has_enough_memory, first db call:
\* aggr = self._get_aggregate_metadata(instance_uuid, dest), and the parse of
\* its ram_allocation_ratio into the local ram_ratio.
MemoryGetAggregate ==
    /\ pc = "check_destination_has_enough_memory"
    /\ calls' = Append(calls, DbAggregate(destination))
    /\ LET a == GetAggregateMetadata(registry, destination) IN
       /\ IF a.kind # "ok"
            THEN Raise(Exc(a.kind, destination, a.reason, a.agg_name))
            ELSE pc' = "memory_get_total" /\ UNCHANGED raised
       /\ live' = [live EXCEPT
             !.ram_ratio_x10 =
                 IF a.kind # "ok" THEN -1
                 ELSE registry[destination].aggregates[1].ram_allocation_ratio_x10,
             !.total = -1, !.used = -1,
             !.snapshots =
                 IF registry[destination].known
                   THEN {<<registry[destination].memory_mb,
                           registry[destination].memory_mb_used>>}
                   ELSE {}]
    /\ UNCHANGED <<registry, conf, instance, request, source, destination,
                   migrate_data, attempted_hosts, host, rollback_raised,
                   block_migration, parked, ftu, netapp, auth>>

\* Second db call: total = self._get_compute_info(self.destination)['memory_mb'].
\* _get_compute_info lets the db's NotFound through.
MemoryGetTotal ==
    /\ pc = "memory_get_total"
    /\ calls' = Append(calls, DbService(destination))
    /\ IF ~registry[destination].known
         THEN /\ Raise(Exc("NotFound", destination, "None", <<>>))
              /\ UNCHANGED live
         ELSE /\ live' = [live EXCEPT !.total = registry[destination].memory_mb]
              /\ pc' = "memory_get_used"
              /\ UNCHANGED raised
    /\ UNCHANGED <<registry, conf, instance, request, source, destination,
                   migrate_data, attempted_hosts, host, rollback_raised,
                   block_migration, parked, ftu, netapp, auth>>

\* Third db call: used = self._get_compute_info(self.destination)['memory_mb_used'],
\* and the arithmetic and comparison that follow it, on the locals.
MemoryGetUsed ==
    /\ pc = "memory_get_used"
    /\ calls' = Append(calls, DbService(destination))
    /\ IF ~registry[destination].known
         THEN /\ Raise(Exc("NotFound", destination, "None", <<>>))
              /\ UNCHANGED live
         ELSE LET used == registry[destination].memory_mb_used IN
              /\ live' = [live EXCEPT !.used = used]
              /\ IF LackOfMemory(live.total, live.ram_ratio_x10, used,
                                 instance.memory_mb)
                   THEN Raise(Exc("MigrationPreCheckError", destination,
                                  "lack_of_memory", <<>>))
                   ELSE pc' = "check_compatible_with_source_hypervisor"
                        /\ UNCHANGED raised
    /\ UNCHANGED <<registry, conf, instance, request, source, destination,
                   migrate_data, attempted_hosts, host, rollback_raised,
                   block_migration, parked, ftu, netapp, auth>>

\* _check_compatible_with_source_hypervisor(self.destination), first db call:
\* source_info = self._get_compute_info(self.source)
CheckCompatibleGetSourceInfo ==
    /\ pc = "check_compatible_with_source_hypervisor"
    /\ calls' = Append(calls, DbService(source))
    /\ IF ~registry[source].known
         THEN /\ Raise(Exc("NotFound", source, "None", <<>>))
              /\ UNCHANGED live
         ELSE /\ live' = [live EXCEPT !.source_info = ComputeInfo(registry[source])]
              /\ pc' = "compatible_get_destination_info"
              /\ UNCHANGED raised
    /\ UNCHANGED <<registry, conf, instance, request, source, destination,
                   migrate_data, attempted_hosts, host, rollback_raised,
                   block_migration, parked, ftu, netapp, auth>>

\* Second db call: destination_info = self._get_compute_info(destination),
\* and the two comparisons; the locals end with the call.
CheckCompatibleGetDestinationInfo ==
    /\ pc = "compatible_get_destination_info"
    /\ calls' = Append(calls, DbService(destination))
    /\ IF ~registry[destination].known
         THEN Raise(Exc("NotFound", destination, "None", <<>>))
         ELSE LET v == HypervisorVerdict(live.source_info,
                                         ComputeInfo(registry[destination])) IN
              IF v # "ok"
                THEN Raise(Exc(v, destination, "None", <<>>))
                ELSE pc' = "call_livem_checks_on_host" /\ UNCHANGED raised
    /\ live' = [live EXCEPT !.source_info = NoInfo]
    /\ UNCHANGED <<registry, conf, instance, request, source, destination,
                   migrate_data, attempted_hosts, host, rollback_raised,
                   block_migration, parked, ftu, netapp, auth>>

\* Mutant: a requested destination rejected by its precheck is treated like a
\* rejected candidate, and the scheduler is asked for another host.
CallLivemChecksOnHost_FallsBackToScheduler ==
    /\ pc = "call_livem_checks_on_host"
    /\ \/ \E d \in MigrateDataValues :
            /\ calls' = Append(calls, Call("check_can_live_migrate_destination",
                                           destination, <<>>, d, "None"))
            /\ migrate_data' = d
            /\ pc' = "live_migration"
            /\ UNCHANGED <<raised, attempted_hosts>>
       \/ \E k \in PrecheckFailures :
            /\ calls' = Append(calls, Call("check_can_live_migrate_destination",
                                           destination, <<>>, NoData, k))
            /\ attempted_hosts' = <<source, destination>>
            /\ pc' = "check_not_over_max_retries"
            /\ UNCHANGED <<raised, migrate_data>>
    /\ UNCHANGED <<rest, registry, conf, instance, request, source, destination, host>>

\* _call_livem_checks_on_host(self.destination): migrate_data is assigned
\* only when the RPC returns.
CallLivemChecksOnHost ==
    /\ pc = "call_livem_checks_on_host"
    /\ \/ \E d \in MigrateDataValues :
            /\ calls' = Append(calls, Call("check_can_live_migrate_destination",
                                           destination, <<>>, d, "None"))
            /\ migrate_data' = d
            /\ pc' = "live_migration"
            /\ UNCHANGED raised
       \/ \E k \in PrecheckFailures :
            /\ calls' = Append(calls, Call("check_can_live_migrate_destination",
                                           destination, <<>>, NoData, k))
            /\ Raise(Exc(k, destination, "None", <<>>))
            /\ UNCHANGED migrate_data
    /\ UNCHANGED <<rest, registry, conf, instance, request, source, destination,
                   attempted_hosts, host>>

\* -------------------------------------------------------- _find_destination

\* Mutant: the source host is counted as a retry.
CheckNotOverMaxRetries_CountsSource ==
    /\ pc = "check_not_over_max_retries"
    /\ IF conf = -1
         THEN pc' = "get_candidate_destination" /\ UNCHANGED raised
         ELSE LET retries == Len(attempted_hosts) IN
              IF retries > conf
                THEN Raise(Exc("NoValidHost", NoHost, "max_retries", <<>>))
                ELSE pc' = "get_candidate_destination" /\ UNCHANGED raised
    /\ UNCHANGED <<rest, registry, conf, instance, request, source, destination,
                   migrate_data, attempted_hosts, host, calls>>

\* Mutant: -1 is compared like any other limit.
CheckNotOverMaxRetries_NoUnlimited ==
    /\ pc = "check_not_over_max_retries"
    /\ LET retries == Len(attempted_hosts) - 1 IN
       IF retries > conf
         THEN Raise(Exc("NoValidHost", NoHost, "max_retries", <<>>))
         ELSE pc' = "get_candidate_destination" /\ UNCHANGED raised
    /\ UNCHANGED <<rest, registry, conf, instance, request, source, destination,
                   migrate_data, attempted_hosts, host, calls>>

CheckNotOverMaxRetries ==
    /\ pc = "check_not_over_max_retries"
    /\ IF conf = -1
         THEN pc' = "get_candidate_destination" /\ UNCHANGED raised
         ELSE LET retries == Len(attempted_hosts) - 1 IN
              IF retries > conf
                THEN Raise(Exc("NoValidHost", NoHost, "max_retries", <<>>))
                ELSE pc' = "get_candidate_destination" /\ UNCHANGED raised
    /\ UNCHANGED <<rest, registry, conf, instance, request, source, destination,
                   migrate_data, attempted_hosts, host, calls>>

\* Mutant: only the source host is passed as ignore_hosts.
GetCandidateDestination_IgnoresOnlySource ==
    /\ pc = "get_candidate_destination"
    /\ \/ \E h \in SelectHostsAnswers(<<source>>) :
            /\ calls' = Append(calls, Call("select_hosts", h, <<source>>,
                                           NoData, "None"))
            /\ host' = h
            /\ pc' = "candidate_hypervisor"
            /\ UNCHANGED raised
       \/ /\ calls' = Append(calls, Call("select_hosts", NoHost, <<source>>,
                                         NoData, "NoValidHost"))
          /\ Raise(Exc("NoValidHost", NoHost, "scheduler", <<>>))
          /\ UNCHANGED host
       \/ /\ calls' = Append(calls, Call("select_hosts", NoHost, <<source>>,
                                         NoData, "None"))
          /\ Raise(Exc("IndexError", NoHost, "scheduler", <<>>))
          /\ UNCHANGED host
    /\ UNCHANGED <<rest, registry, conf, instance, request, source, destination,
                   migrate_data, attempted_hosts>>

\* _get_candidate_destination: select_hosts(...)[0] with
\* filter_properties = {'ignore_hosts': attempted_hosts}.  The scheduler
\* returns a ranked host, raises NoValidHost, or returns no host at all (the
\* [0] then raises IndexError).
GetCandidateDestination ==
    /\ pc = "get_candidate_destination"
    /\ \/ \E h \in SelectHostsAnswers(attempted_hosts) :
            /\ calls' = Append(calls, Call("select_hosts", h, attempted_hosts,
                                           NoData, "None"))
            /\ host' = h
            /\ pc' = "candidate_hypervisor"
            /\ UNCHANGED raised
       \/ /\ calls' = Append(calls, Call("select_hosts", NoHost, attempted_hosts,
                                         NoData, "NoValidHost"))
          /\ Raise(Exc("NoValidHost", NoHost, "scheduler", <<>>))
          /\ UNCHANGED host
       \/ /\ calls' = Append(calls, Call("select_hosts", NoHost, attempted_hosts,
                                         NoData, "None"))
          /\ Raise(Exc("IndexError", NoHost, "scheduler", <<>>))
          /\ UNCHANGED host
    /\ UNCHANGED <<rest, registry, conf, instance, request, source, destination,
                   migrate_data, attempted_hosts>>

\* Mutant: the handler re-raises instead of skipping the host.
SkipHost_Reraises ==
    /\ Raise(Exc("Invalid", host, "None", <<>>))
    /\ UNCHANGED <<attempted_hosts, host>>

\* Mutant: the rejected host is put at the front of the list.
SkipHost_Prepends ==
    /\ attempted_hosts' = <<host>> \o attempted_hosts
    /\ host' = NoHost
    /\ pc' = "check_not_over_max_retries"
    /\ UNCHANGED raised

\* The `except exception.Invalid` handler of the loop: skip the host.
SkipHost ==
    /\ attempted_hosts' = Append(attempted_hosts, host)
    /\ host' = NoHost
    /\ pc' = "check_not_over_max_retries"
    /\ UNCHANGED raised

\* Loop body, first call in the try, first db call:
\* _check_compatible_with_source_hypervisor(host) fetches the source.  A
\* NotFound is not an Invalid: it leaves the loop and execute().
CandidateGetSourceInfo ==
    /\ pc = "candidate_hypervisor"
    /\ calls' = Append(calls, DbService(source))
    /\ IF ~registry[source].known
         THEN /\ Raise(Exc("NotFound", source, "None", <<>>))
              /\ UNCHANGED live
         ELSE /\ live' = [live EXCEPT !.source_info = ComputeInfo(registry[source])]
              /\ pc' = "candidate_get_destination_info"
              /\ UNCHANGED raised
    /\ UNCHANGED <<registry, conf, instance, request, source, destination,
                   migrate_data, attempted_hosts, host, rollback_raised,
                   block_migration, parked, ftu, netapp, auth>>

\* Mutant: the candidate is judged by the facts its host had before the
\* latest update of the registry, as if they had been cached.
CandidateGetDestinationInfo_UsesCachedInfo ==
    /\ pc = "candidate_get_destination_info"
    /\ LET cached == IF live.updates = 0 THEN registry
                     ELSE [registry EXCEPT
                             ![live.last_update[1].host] = live.last_update[1].was]
       IN
       /\ calls' = Append(calls, DbServiceOf(cached, host))
       /\ IF ~cached[host].known
            THEN Raise(Exc("NotFound", host, "None", <<>>))
                 /\ UNCHANGED <<attempted_hosts, host>>
            ELSE LET v == HypervisorVerdict(live.source_info,
                                            ComputeInfo(cached[host])) IN
                 IF v = "ok"
                   THEN pc' = "candidate_livem_checks"
                        /\ UNCHANGED <<raised, attempted_hosts, host>>
                   ELSE SkipHost
    /\ live' = [live EXCEPT !.source_info = NoInfo]
    /\ UNCHANGED <<registry, conf, instance, request, source, destination,
                   migrate_data, rollback_raised, block_migration, parked, ftu,
                   netapp, auth>>

\* Second db call of the candidate's hypervisor check, the two comparisons,
\* and the `except exception.Invalid` handler around them: both hypervisor
\* exceptions are Invalid, the db's NotFound is not.
CandidateGetDestinationInfo ==
    /\ pc = "candidate_get_destination_info"
    /\ calls' = Append(calls, DbService(host))
    /\ IF ~registry[host].known
         THEN Raise(Exc("NotFound", host, "None", <<>>))
              /\ UNCHANGED <<attempted_hosts, host>>
         ELSE LET v == HypervisorVerdict(live.source_info,
                                         ComputeInfo(registry[host])) IN
              IF v = "ok"
                THEN pc' = "candidate_livem_checks"
                     /\ UNCHANGED <<raised, attempted_hosts, host>>
                ELSE IF IsInvalid(v)
                  THEN SkipHost
                  ELSE Raise(Exc(v, host, "None", <<>>))
                       /\ UNCHANGED <<attempted_hosts, host>>
    /\ live' = [live EXCEPT !.source_info = NoInfo]
    /\ UNCHANGED <<registry, conf, instance, request, source, destination,
                   migrate_data, rollback_raised, block_migration, parked, ftu,
                   netapp, auth>>

\* Mutant: the data returned by the candidate's precheck is not stored.
CandidateLivemChecks_DropsData ==
    /\ pc = "candidate_livem_checks"
    /\ \/ \E d \in MigrateDataValues :
            /\ calls' = Append(calls, Call("check_can_live_migrate_destination",
                                           host, <<>>, d, "None"))
            /\ destination' = host
            /\ pc' = "live_migration"
            /\ UNCHANGED <<raised, attempted_hosts, host>>
       \/ \E k \in PrecheckFailures :
            /\ calls' = Append(calls, Call("check_can_live_migrate_destination",
                                           host, <<>>, NoData, k))
            /\ IF IsInvalid(k)
                 THEN SkipHost
                 ELSE Raise(Exc(k, host, "None", <<>>)) /\ UNCHANGED <<attempted_hosts, host>>
            /\ UNCHANGED destination
    /\ UNCHANGED <<rest, registry, conf, instance, request, source, migrate_data>>

\* Mutant: what a rejecting precheck sent back is stored on the task.
CandidateLivemChecks_StoresOnFailure ==
    /\ pc = "candidate_livem_checks"
    /\ \/ \E d \in MigrateDataValues :
            /\ calls' = Append(calls, Call("check_can_live_migrate_destination",
                                           host, <<>>, d, "None"))
            /\ migrate_data' = d
            /\ destination' = host
            /\ pc' = "live_migration"
            /\ UNCHANGED <<raised, attempted_hosts, host>>
       \/ \E k \in PrecheckFailures :
            /\ calls' = Append(calls, Call("check_can_live_migrate_destination",
                                           host, <<>>, NoData, k))
            /\ IF IsInvalid(k)
                 THEN SkipHost
                 ELSE Raise(Exc(k, host, "None", <<>>)) /\ UNCHANGED <<attempted_hosts, host>>
            /\ migrate_data' = k
            /\ UNCHANGED destination
    /\ UNCHANGED <<rest, registry, conf, instance, request, source>>

\* Loop body, second call in the try: _call_livem_checks_on_host(host); on
\* success the loop ends and execute() stores the host in self.destination.
CandidateLivemChecks ==
    /\ pc = "candidate_livem_checks"
    /\ \/ \E d \in MigrateDataValues :
            /\ calls' = Append(calls, Call("check_can_live_migrate_destination",
                                           host, <<>>, d, "None"))
            /\ migrate_data' = d
            /\ destination' = host
            /\ pc' = "live_migration"
            /\ UNCHANGED <<raised, attempted_hosts, host>>
       \/ \E k \in PrecheckFailures :
            /\ calls' = Append(calls, Call("check_can_live_migrate_destination",
                                           host, <<>>, NoData, k))
            /\ IF IsInvalid(k)
                 THEN SkipHost
                 ELSE Raise(Exc(k, host, "None", <<>>)) /\ UNCHANGED <<attempted_hosts, host>>
            /\ UNCHANGED <<migrate_data, destination>>
    /\ UNCHANGED <<rest, registry, conf, instance, request, source>>

\* ---------------------------------------------------------------- dispatch

\* Mutant: a failure of the trigger call is swallowed and the call repeated
\* once on the next best effort, then reported as success.
LiveMigration_SwallowsFailure ==
    /\ pc = "live_migration"
    /\ \/ /\ calls' = Append(calls, TriggerCall(source, destination, block_migration,
                     migrate_data, "None"))
          /\ pc' = "done"
          /\ UNCHANGED raised
       \/ \E k \in RemoteFailures :
            /\ calls' = calls \o <<TriggerCall(source, destination, block_migration,
                     migrate_data, k),
                                   TriggerCall(source, destination, block_migration,
                     migrate_data, "None")>>
            /\ pc' = "done"
            /\ UNCHANGED raised
    /\ UNCHANGED <<rest, registry, conf, instance, request, source,
                   destination, migrate_data, attempted_hosts, host>>

\* Mutant: the trigger call is given the destination of the request, not the
\* one the task settled on.
LiveMigration_SendsRequestedHost ==
    /\ pc = "live_migration"
    /\ \/ /\ calls' = Append(calls, TriggerCall(source, request, block_migration,
                                                migrate_data, "None"))
          /\ pc' = "done"
          /\ UNCHANGED raised
       \/ \E k \in RemoteFailures :
            /\ calls' = Append(calls, TriggerCall(source, request, block_migration,
                                                  migrate_data, k))
            /\ Raise(Exc(k, destination, "None", <<>>))
    /\ UNCHANGED <<rest, registry, conf, instance, request, source,
                   destination, migrate_data, attempted_hosts, host>>

\* execute(): return self.compute_rpcapi.live_migration(...)
LiveMigration ==
    /\ pc = "live_migration"
    /\ \/ /\ calls' = Append(calls, TriggerCall(source, destination, block_migration,
                     migrate_data, "None"))
          /\ pc' = "done"
          /\ UNCHANGED raised
       \/ \E k \in RemoteFailures :
            /\ calls' = Append(calls, TriggerCall(source, destination, block_migration,
                     migrate_data, k))
            /\ Raise(Exc(k, destination, "None", <<>>))
    /\ UNCHANGED <<rest, registry, conf, instance, request, source, destination,
                   migrate_data, attempted_hosts, host>>

\* ---------------------------------------------------------------- rollback

\* Mutant: rollback() undoes what execute() stored on the task.
Rollback_ClearsTask ==
    /\ pc \in {"check_instance_is_running", "failed", "done"}
    /\ rollback_raised' = "None"
    /\ destination' = request
    /\ migrate_data' = NoData
    /\ UNCHANGED <<others, block_migration, registry, conf, instance, request, source, attempted_hosts,
                   host, pc, raised, calls>>

\* rollback(): `raise NotImplementedError()`.  The caller can invoke it while
\* execute() is not running: before it, or after it returned or raised.
Rollback ==
    /\ pc \in {"check_instance_is_running", "failed", "done"}
    /\ rollback_raised' = "NotImplementedError"
    /\ UNCHANGED <<others, block_migration, registry, conf, instance, request, source, destination,
                   migrate_data, attempted_hosts, host, pc, raised, calls>>

Next ==
    \/ CheckInstanceIsRunning
    \/ CheckSourceIsUp
    \/ ChooseDestinationPath
    \/ CheckDestinationIsNotSource
    \/ CheckDestinationIsUp
    \/ MemoryGetAggregate
    \/ MemoryGetTotal
    \/ MemoryGetUsed
    \/ CheckCompatibleGetSourceInfo
    \/ CheckCompatibleGetDestinationInfo
    \/ CallLivemChecksOnHost
    \/ CheckNotOverMaxRetries
    \/ GetCandidateDestination
    \/ CandidateGetSourceInfo
    \/ CandidateGetDestinationInfo
    \/ CandidateLivemChecks
    \/ LiveMigration

Spec == Init /\ [][Next]_vars

\* ------------------------------------------- the checks on a wider domain
\* A second specification: the same task, with the facts of the hosts drawn
\* from a grid of aggregate memberships, ratios, memory figures and
\* hypervisor versions, and with a caller that may invoke rollback().

ChecksRatioValues   == {10, 11, 15}
ChecksTotalValues   == {4, 100}
ChecksUsedValues    == {2, 10, 50}
ChecksMemoryValues  == {0, 2, 49, 50, 100}
ChecksVersionValues == {4, 5, 6}
ChecksTypeValues    == {"kvm", "xen"}
ChecksAggregateLists ==
    {<<>>} \cup {<<Aggr("agg_a", r)>> : r \in ChecksRatioValues}
           \cup {<<Aggr("agg_a", 15), Aggr("agg_b", 10)>>,
                 <<Aggr("agg_c", 10), Aggr("agg_a", 15), Aggr("agg_b", 10)>>}

FactsSource == Facts(TRUE, TRUE, <<Aggr("agg_a", 15)>>, 4, 3, "kvm", 5)

ChecksDestinationFacts ==
    {Facts(TRUE, TRUE, a, t, u, ty, v) :
        a \in ChecksAggregateLists, t \in ChecksTotalValues,
        u \in ChecksUsedValues, ty \in ChecksTypeValues,
        v \in ChecksVersionValues}

\* The instance runs on host 1; every other host carries the same facts.
InitChecks ==
    /\ \E f \in ChecksDestinationFacts :
          registry = [h \in Hosts |-> IF h = 1 THEN FactsSource ELSE f]
    /\ conf = -1
    /\ instance \in [host : {1}, power_state : {RUNNING},
                     memory_mb : ChecksMemoryValues]
    /\ request \in {NoHost, 2}
    /\ source = instance.host
    /\ destination = request
    /\ migrate_data = NoData
    /\ attempted_hosts = <<>>
    /\ host = NoHost
    /\ pc = "check_instance_is_running"
    /\ raised = NotRaised
    /\ calls = <<>>
    /\ rollback_raised = "None"
    /\ block_migration \in BOOLEAN
    /\ OthersIdle

NextChecks ==
    \/ Next
    \/ Rollback

SpecChecks == InitChecks /\ [][NextChecks]_vars

\* ------------------------------------------------ two tasks, interleaved
\* A third specification: two LiveMigrationTask objects for different
\* instances.  One runs; the other is suspended with its attributes and
\* locals in `parked`.  The registry and the configuration are read by both.

\* The locals of the check a task is in, as `live` holds them for the task
\* that is running.
CheckLocals(l) ==
    [ram_ratio_x10 |-> l.ram_ratio_x10, total |-> l.total, used |-> l.used,
     snapshots |-> l.snapshots, source_info |-> l.source_info]

\* `live` with the check locals of the task that is resumed.
WithLocals(l, locals) ==
    [updates |-> l.updates, last_update |-> l.last_update,
     ram_ratio_x10 |-> locals.ram_ratio_x10,
     total |-> locals.total, used |-> locals.used,
     snapshots |-> locals.snapshots, source_info |-> locals.source_info]

\* The attributes and locals of the task that is running, as one record.
Running(id) ==
    [task |-> id, instance |-> instance, request |-> request,
     source |-> source, destination |-> destination,
     migrate_data |-> migrate_data, attempted_hosts |-> attempted_hosts,
     host |-> host, pc |-> pc, raised |-> raised, calls |-> calls,
     block_migration |-> block_migration, locals |-> CheckLocals(live)]

\* The running task's id: the two tasks are 1 and 2.
RunningId == 3 - parked.task

\* Mutant: attempted_hosts is one list shared by the two tasks.
Switch_SharesAttemptedHosts ==
    /\ parked.task # 0
    /\ parked' = Running(RunningId)
    /\ instance' = parked.instance
    /\ request' = parked.request
    /\ source' = parked.source
    /\ destination' = parked.destination
    /\ migrate_data' = parked.migrate_data
    /\ host' = parked.host
    /\ pc' = parked.pc
    /\ raised' = parked.raised
    /\ calls' = parked.calls
    /\ block_migration' = parked.block_migration
    /\ live' = WithLocals(live, parked.locals)
    /\ UNCHANGED <<attempted_hosts, registry, conf, rollback_raised, ftu, netapp,
                   auth>>

\* The running task is suspended and the other one resumed: each keeps its
\* own attributes and locals.
Switch ==
    /\ parked.task # 0
    /\ parked' = Running(RunningId)
    /\ instance' = parked.instance
    /\ request' = parked.request
    /\ source' = parked.source
    /\ destination' = parked.destination
    /\ migrate_data' = parked.migrate_data
    /\ attempted_hosts' = parked.attempted_hosts
    /\ host' = parked.host
    /\ pc' = parked.pc
    /\ raised' = parked.raised
    /\ calls' = parked.calls
    /\ block_migration' = parked.block_migration
    /\ live' = WithLocals(live, parked.locals)
    /\ UNCHANGED <<registry, conf, rollback_raised, ftu, netapp, auth>>

\* The host facts of the two-task specification: the two sources pass every
\* check, the other hosts may have another hypervisor type.
TwoTaskRegistries ==
    {r \in [Hosts -> {FactsGood, FactsOtherType}] :
        r[1] = FactsGood /\ r[2] = FactsGood}

\* LiveMigrationTask.__init__ for an instance on host h.
NewTask(id, h, req, block) ==
    [task |-> id,
     instance |-> [host |-> h, power_state |-> RUNNING, memory_mb |-> 2],
     request |-> req, source |-> h, destination |-> req,
     migrate_data |-> NoData, attempted_hosts |-> <<>>, host |-> NoHost,
     pc |-> "check_instance_is_running", raised |-> NotRaised, calls |-> <<>>,
     block_migration |-> block, locals |-> CheckLocals(NoLive)]

InitTwoTasks ==
    /\ registry \in TwoTaskRegistries
    /\ conf = -1
    /\ instance = [host |-> 1, power_state |-> RUNNING, memory_mb |-> 2]
    /\ request = NoHost
    /\ source = instance.host
    /\ destination = request
    /\ migrate_data = NoData
    /\ attempted_hosts = <<>>
    /\ host = NoHost
    /\ pc = "check_instance_is_running"
    /\ raised = NotRaised
    /\ calls = <<>>
    /\ rollback_raised = "None"
    /\ block_migration = FALSE
    /\ \E req \in {NoHost, 1} : parked = NewTask(2, 2, req, TRUE)
    /\ ftu = Idle /\ netapp = Idle /\ auth = Idle /\ live = NoLive

NextTwoTasks ==
    \/ Next
    \/ Switch

SpecTwoTasks == InitTwoTasks /\ [][NextTwoTasks]_vars

\* ------------------------------------------------- any scheduler answer
\* A specification in which the scheduler is not trusted to honour
\* ignore_hosts: select_hosts may rank any host first, the source host and
\* hosts already rejected included.

\* Longest attempted_hosts list with which such a scheduler is still asked.
MaxAttempted == 3

\* _get_candidate_destination with a scheduler that may answer any host.
GetCandidateDestinationAnyAnswer ==
    /\ pc = "get_candidate_destination"
    /\ Len(attempted_hosts) <= MaxAttempted
    /\ \E h \in Hosts :
          /\ calls' = Append(calls, Call("select_hosts", h, attempted_hosts,
                                         NoData, "None"))
          /\ host' = h
          /\ pc' = "candidate_hypervisor"
          /\ UNCHANGED raised
    /\ UNCHANGED <<rest, registry, conf, instance, request, source, destination,
                   migrate_data, attempted_hosts>>

InitAnyAnswer ==
    /\ registry \in {r \in [Hosts -> {FactsGood, FactsOtherType}] :
                        r[1] = FactsGood}
    /\ conf \in RetryConfValues
    /\ instance = [host |-> 1, power_state |-> RUNNING, memory_mb |-> 2]
    /\ request \in Hosts \cup {NoHost}
    /\ source = instance.host
    /\ destination = request
    /\ migrate_data = NoData
    /\ attempted_hosts = <<>>
    /\ host = NoHost
    /\ pc = "check_instance_is_running"
    /\ raised = NotRaised
    /\ calls = <<>>
    /\ rollback_raised = "None"
    /\ block_migration = FALSE
    /\ OthersIdle

NextAnyAnswer ==
    \/ Next
    \/ GetCandidateDestinationAnyAnswer

SpecAnyAnswer == InitAnyAnswer /\ [][NextAnyAnswer]_vars

\* ------------------------------------------------- a registry that changes
\* A specification in which the registry changes while the task runs: the
\* entry of a host, the source included, is rewritten between two db calls of
\* the task, and each db call reads the registry as it is at that moment.

\* Most registry updates in one behaviour.
MaxUpdates == 2

\* A large host that is full, and a small host that is full.
FactsBigFull   == Facts(TRUE, TRUE, <<Aggr("agg_a", 15)>>, 8, 10, "kvm", 2)
FactsSmallFull == Facts(TRUE, TRUE, <<Aggr("agg_a", 15)>>, 4, 4, "kvm", 2)

\* What the registry may come to hold for a host: a compute node's report,
\* a move to another aggregate, a service record that was deleted.
UpdateFactsChoices ==
    {FactsGood, FactsOtherType, FactsBigFull, FactsSmallFull, FactsLowMemory,
     FactsMissing}

MemoryCheckPcs == {"memory_get_total", "memory_get_used"}

InitLive ==
    /\ registry \in {r \in [Hosts -> {FactsGood, FactsBigFull}] :
                        r[1] = FactsGood}
    /\ conf = -1
    /\ instance = [host |-> 1, power_state |-> RUNNING, memory_mb |-> 2]
    /\ request \in {NoHost, 2}
    /\ source = instance.host
    /\ destination = request
    /\ migrate_data = NoData
    /\ attempted_hosts = <<>>
    /\ host = NoHost
    /\ pc = "check_instance_is_running"
    /\ raised = NotRaised
    /\ calls = <<>>
    /\ rollback_raised = "None"
    /\ block_migration = FALSE
    /\ OthersIdle

\* The registry entry of a host is rewritten. While a memory check of that
\* host is in progress the figures of a record that exists are added to those
\* the host has had during the check.
UpdateHostFacts(h, f) ==
    /\ pc \notin {"failed", "done"}
    /\ live.updates < MaxUpdates
    /\ f # registry[h]
    /\ registry' = [registry EXCEPT ![h] = f]
    /\ live' = [live EXCEPT
          !.updates = @ + 1,
          !.last_update = <<[host |-> h, was |-> registry[h]]>>,
          !.snapshots = IF pc \in MemoryCheckPcs /\ h = destination /\ f.known
                        THEN @ \cup {<<f.memory_mb, f.memory_mb_used>>}
                        ELSE @]
    /\ UNCHANGED <<conf, instance, request, source, destination, migrate_data,
                   attempted_hosts, host, pc, raised, calls, rollback_raised,
                   block_migration, parked, ftu, netapp, auth>>

NextLive ==
    \/ Next
    \/ \E h \in Hosts, f \in UpdateFactsChoices : UpdateHostFacts(h, f)

SpecLive == InitLive /\ [][NextLive]_vars

\* ------------------------------------------- two tasks, one destination
\* A specification in which two tasks, for instances on hosts 1 and 2, run
\* interleaved and the second was asked to migrate to host 3; the first was
\* asked for host 3 as well, or for no host. Host 3 has room for one of the
\* two instances. Once a task has dispatched, its instance lands on the
\* destination and the compute node reports the memory it takes.

InitRace ==
    /\ registry = [h \in Hosts |-> FactsGood]
    /\ conf = -1
    /\ instance = [host |-> 1, power_state |-> RUNNING, memory_mb |-> 2]
    /\ request \in {NoHost, 3}
    /\ source = instance.host
    /\ destination = request
    /\ migrate_data = NoData
    /\ attempted_hosts = <<>>
    /\ host = NoHost
    /\ pc = "check_instance_is_running"
    /\ raised = NotRaised
    /\ calls = <<>>
    /\ rollback_raised = "None"
    /\ block_migration = FALSE
    /\ parked = NewTask(2, 2, 3, FALSE)
    /\ ftu = Idle /\ netapp = Idle /\ auth = Idle /\ live = NoLive

\* The instance of the suspended task, dispatched, has arrived: the
\* destination's compute node reports its memory as used.
MigratedInstanceLands ==
    /\ parked.task # 0
    /\ parked.pc = "done"
    /\ live.updates = 0
    /\ registry' = [registry EXCEPT
          ![parked.destination].memory_mb_used = @ + parked.instance.memory_mb]
    /\ live' = [live EXCEPT
          !.updates = @ + 1,
          !.last_update = <<[host |-> parked.destination,
                             was |-> registry[parked.destination]]>>]
    /\ UNCHANGED <<conf, instance, request, source, destination, migrate_data,
                   attempted_hosts, host, pc, raised, calls, rollback_raised,
                   block_migration, parked, ftu, netapp, auth>>

NextRace ==
    \/ Next
    \/ Switch
    \/ MigratedInstanceLands

SpecRace == InitRace /\ [][NextRace]_vars

\* ------------------------------------------ FaultToleranceUsageController
\* A fourth specification: one usage record of the os-simple-tenant-usage
\* response is handed to the extension, through show or through index.

\* Longest server_usages list explored.
MaxUsages == 4

\* The instances of the tenant: 1 and 2 are primary (or ordinary) instances,
\* the others are fault-tolerance secondaries.
UsageInstances == 1 .. 5
\* FaultToleranceRelation.get_by_secondary_instance_uuid(...).primary_instance_uuid
PrimaryOf(uuid) == CASE uuid = 3 -> 1 [] uuid = 4 -> 1 [] uuid = 5 -> 2 [] OTHER -> 0
\* utils.ft_secondary(instance)
FtSecondary(uuid) == PrimaryOf(uuid) # 0

\* One entry of usage['server_usages'], before the extension touches it.
ServerUsage(uuid) == [instance_id |-> uuid, has_ft |-> FALSE, ft_secondary_usage |-> <<>>]

\* The server_usages lists handed in: one entry per instance, in any order.
UsageLists ==
    {l \in UNION {[1 .. n -> UsageInstances] : n \in 0 .. MaxUsages} :
        \A i, j \in 1 .. Len(l) : i # j => l[i] # l[j]}

\* _get_secondary_instance_uuids: the uuids of the listed instances that are
\* secondaries.
SecondaryInstanceUuids(server_usages) ==
    {server_usages[i].instance_id : i \in 1 .. Len(server_usages)}
        \cap {u \in UsageInstances : FtSecondary(u)}

\* `del usage['server_usages'][key]`
DelAt(l, key) == [i \in 1 .. Len(l) - 1 |-> IF i < key THEN l[i] ELSE l[i + 1]]

\* The first loop of _extend.  enumerate() keeps a position into the list
\* that is being shortened: after a deletion at `key` the iterator moves on
\* to key + 1, which is the element after the one that slid into `key`.
\* Returns the list and the relations (uuid -> usages; <<>>: uuid not a key).
RECURSIVE MoveSecondaries(_, _, _, _)
MoveSecondaries(server_usages, key, relations, secondary_instance_uuids) ==
    IF key > Len(server_usages)
      THEN [server_usages |-> server_usages, relations |-> relations]
    ELSE LET server_usage == server_usages[key]
             uuid == server_usage.instance_id
         IN  IF uuid \in secondary_instance_uuids
               THEN MoveSecondaries(
                        DelAt(server_usages, key), key + 1,
                        [relations EXCEPT ![PrimaryOf(uuid)] =
                                              Append(@, server_usage)],
                        secondary_instance_uuids)
               ELSE MoveSecondaries(server_usages, key + 1, relations,
                                    secondary_instance_uuids)

\* The second loop of _extend: `if uuid in relations`.
AttachSecondaries(server_usages, relations) ==
    [i \in 1 .. Len(server_usages) |->
        IF relations[server_usages[i].instance_id] # <<>>
          THEN [server_usages[i] EXCEPT
                    !.has_ft = TRUE,
                    !.ft_secondary_usage = relations[server_usages[i].instance_id]]
          ELSE server_usages[i]]

\* _extend(req, usage) on the list of a usage record.
Extend(server_usages) ==
    LET moved == MoveSecondaries(server_usages, 1,
                                 [u \in UsageInstances |-> <<>>],
                                 SecondaryInstanceUuids(server_usages))
    IN  AttachSecondaries(moved.server_usages, moved.relations)

InitUsage ==
    /\ \E l \in UsageLists, k \in BOOLEAN :
          ftu = [pc |-> "ready", has_server_usages |-> k,
                 input |-> [i \in 1 .. Len(l) |-> ServerUsage(l[i])],
                 server_usages |-> [i \in 1 .. Len(l) |-> ServerUsage(l[i])],
                 raised |-> "None"]
    /\ registry = [h \in Hosts |-> FactsGood]
    /\ conf = -1
    /\ instance = [host |-> 1, power_state |-> RUNNING, memory_mb |-> 2]
    /\ request = NoHost
    /\ source = instance.host
    /\ destination = request
    /\ migrate_data = NoData
    /\ attempted_hosts = <<>>
    /\ host = NoHost
    /\ pc = "check_instance_is_running"
    /\ raised = NotRaised
    /\ calls = <<>>
    /\ rollback_raised = "None"
    /\ block_migration = FALSE
    /\ parked = NoTask /\ netapp = Idle /\ auth = Idle /\ live = NoLive

\* What the live-migration task holds; the other components leave it alone.
task_vars == <<registry, conf, instance, request, source, destination,
               migrate_data, attempted_hosts, host, pc, raised, calls,
               rollback_raised, block_migration, parked, live>>

\* show(): self._extend(req, resp_obj.obj['tenant_usage']); a record without
\* 'server_usages' makes usage['server_usages'] raise KeyError.
UsageShow ==
    /\ ftu.pc = "ready"
    /\ ftu' = IF ftu.has_server_usages
                THEN [ftu EXCEPT !.pc = "done",
                                 !.server_usages = Extend(ftu.server_usages)]
                ELSE [ftu EXCEPT !.pc = "failed", !.raised = "KeyError"]
    /\ UNCHANGED <<task_vars, netapp, auth>>

\* index(): `if 'server_usages' in usage: self._extend(req, usage)`
UsageIndex ==
    /\ ftu.pc = "ready"
    /\ ftu' = IF ftu.has_server_usages
                THEN [ftu EXCEPT !.pc = "done",
                                 !.server_usages = Extend(ftu.server_usages)]
                ELSE [ftu EXCEPT !.pc = "skipped"]
    /\ UNCHANGED <<task_vars, netapp, auth>>

NextUsage ==
    \/ UsageShow
    \/ UsageIndex

SpecUsage == InitUsage /\ [][NextUsage]_vars

\* ------------------------------------------ NetAppISCSIDriver._wait_for_job
\* A fifth specification: the driver polls one DFM job while the job goes on
\* reporting progress events.

\* Longest progress-event list explored.
MaxJobEvents == 3

\* DpJobProgressEventInfo: EventType and EventStatus.
JobEvents ==
    [EventType : {"progress", "job-end"}, EventStatus : {"normal", "error"}]

\* The first event of the list, from position i on, that ends the scan of
\* _wait_for_job: an error event raises, a job-end event returns.
RECURSIVE ScanEvents(_, _)
ScanEvents(events, i) ==
    IF i > Len(events) THEN "sleep"
    ELSE IF events[i].EventStatus = "error" THEN "raise"
    ELSE IF events[i].EventType = "job-end" THEN "return"
    ELSE ScanEvents(events, i + 1)

\* What the task and the usage extension hold.
not_netapp == <<task_vars, ftu, auth>>

\* Most polls of one job (rounds of the `while True` of _wait_for_job).
MaxPolls == 2

\* When the DFM server reads the job's list for an iterator: once, at
\* IterStart, or again at every IterNext.
IterReads == {"at_start", "at_next"}

InitJob ==
    /\ \E reads \in IterReads :
          netapp = [pc |-> "iter_start", events |-> <<>>, reads |-> reads,
                    listed |-> <<>>, pos |-> 0, event_list |-> <<>>,
                    pending |-> "None", polls |-> 0, requests |-> <<>>,
                    result |-> <<>>, raised |-> "None"]
    /\ registry = [h \in Hosts |-> FactsGood]
    /\ conf = -1
    /\ instance = [host |-> 1, power_state |-> RUNNING, memory_mb |-> 2]
    /\ request = NoHost
    /\ source = instance.host
    /\ destination = request
    /\ migrate_data = NoData
    /\ attempted_hosts = <<>>
    /\ host = NoHost
    /\ pc = "check_instance_is_running"
    /\ raised = NotRaised
    /\ calls = <<>>
    /\ rollback_raised = "None"
    /\ block_migration = FALSE
    /\ parked = NoTask /\ ftu = Idle /\ auth = Idle /\ live = NoLive

\* The DFM server: the job reports one more progress event, at any moment
\* before _wait_for_job has left.
JobReports ==
    /\ netapp.pc \in {"iter_start", "iter_next", "iter_end"}
    /\ Len(netapp.events) < MaxJobEvents
    /\ \E e \in JobEvents : netapp' = [netapp EXCEPT !.events = Append(@, e)]
    /\ UNCHANGED not_netapp

\* _get_job_progress: DpJobProgressEventListIterStart(JobId=job_id), outside
\* the try; an error of the call leaves _wait_for_job.
GetJobProgressIterStart ==
    /\ netapp.pc = "iter_start"
    /\ netapp.polls < MaxPolls
    /\ \/ netapp' = [netapp EXCEPT
            !.pc = "iter_next", !.listed = netapp.events, !.pos = 0,
            !.event_list = <<>>, !.pending = "None",
            !.requests = Append(@, <<"IterStart", "None">>)]
       \/ netapp' = [netapp EXCEPT
            !.pc = "failed", !.raised = "WebFault",
            !.requests = Append(@, <<"IterStart", "WebFault">>)]
    /\ UNCHANGED not_netapp

\* DpJobProgressEventListIterNext(Tag=tag, Maximum=100) inside the try: the
\* entries of the list the iterator has not handed out yet are added to
\* event_list; a result without ProgressEvents breaks the loop; an error of
\* the call goes to the finally clause.
GetJobProgressIterNext ==
    /\ netapp.pc = "iter_next"
    /\ \/ LET list == IF netapp.reads = "at_start" THEN netapp.listed
                      ELSE netapp.events
          IN  netapp' = IF netapp.pos < Len(list)
                        THEN [netapp EXCEPT
                                !.event_list =
                                    @ \o SubSeq(list, netapp.pos + 1, Len(list)),
                                !.pos = Len(list),
                                !.requests = Append(@, <<"IterNext", "None">>)]
                        ELSE [netapp EXCEPT
                                !.pc = "iter_end",
                                !.requests = Append(@, <<"IterNext", "None">>)]
       \/ netapp' = [netapp EXCEPT
            !.pc = "iter_end", !.pending = "WebFault",
            !.requests = Append(@, <<"IterNext", "WebFault">>)]
    /\ UNCHANGED not_netapp

\* finally: DpJobProgressEventListIterEnd(Tag=tag), then the pending error of
\* IterNext or `return event_list`; with the list returned, the for loop of
\* _wait_for_job raises, returns the list or falls through to time.sleep(5)
\* and the next poll.
GetJobProgressIterEnd ==
    /\ netapp.pc = "iter_end"
    /\ \/ LET requests == Append(netapp.requests, <<"IterEnd", "None">>)
              v == ScanEvents(netapp.event_list, 1)
          IN  netapp' =
                CASE netapp.pending = "WebFault" ->
                        [netapp EXCEPT !.pc = "failed", !.raised = "WebFault",
                                       !.requests = requests]
                  [] netapp.pending = "None" /\ v = "raise" ->
                        [netapp EXCEPT !.pc = "failed", !.raised = "Error",
                                       !.requests = requests]
                  [] netapp.pending = "None" /\ v = "return" ->
                        [netapp EXCEPT !.pc = "returned",
                                       !.result = netapp.event_list,
                                       !.requests = requests]
                  [] OTHER ->
                        [netapp EXCEPT !.pc = "iter_start", !.polls = @ + 1,
                                       !.requests = requests]
       \/ netapp' = [netapp EXCEPT
            !.pc = "failed", !.raised = "WebFault",
            !.requests = Append(@, <<"IterEnd", "WebFault">>)]
    /\ UNCHANGED not_netapp

NextJob ==
    \/ JobReports
    \/ GetJobProgressIterStart
    \/ GetJobProgressIterNext
    \/ GetJobProgressIterEnd

SpecJob == InitJob /\ [][NextJob]_vars

\* ------------------------------ NetAppISCSIDriver._ensure_initiator_mapped
\* A sixth specification: LUN masking calls made by two threads of the
\* volume service against one filer. The filer holds initiator groups and LUN
\* maps and answers the proxied requests of the driver; every request is one
\* step, so the requests of two calls may interleave.

\* Most masking calls in one behaviour.
MaxMapCalls == 3

Initiators == 1 .. 2
LunPaths == 1 .. 2

\* The threads that call initialize_connection and terminate_connection.
MapThreads == {"A", "B"}

\* 'openstack-' + initiator_name
IgroupName(initiator_name) == <<"openstack-", initiator_name>>

\* '/vol/' + lunpath
VolPath(lunpath) == <<"/vol/", lunpath>>

\* An igroup kept by an administrator, not by the driver.
ForeignIgroup ==
    [name |-> <<"manual-", 1>>, type |-> "iscsi", os |-> "linux",
     initiators |-> {1}]

\* What _find_igroup_for_initiator gives when the unguarded index
\* igroup_info['initiators'][0]['initiator-info'] meets a group without
\* initiators: the TypeError or IndexError leaves the function.
IndexRaises == <<"TypeError">>

\* _find_igroup_for_initiator, from the k-th group of the list on: groups
\* that are not iscsi/linux or whose name does not start with 'openstack-'
\* are passed over; the initiators of the others are read and the name of
\* the first group that holds the initiator is returned, else None (<<>>).
RECURSIVE FindIgroupForInitiator(_, _, _)
FindIgroupForInitiator(igroups, initiator_name, k) ==
    IF k > Len(igroups) THEN <<>>
    ELSE LET g == igroups[k]
         IN  IF g.type # "iscsi" \/ g.os # "linux"
             THEN FindIgroupForInitiator(igroups, initiator_name, k + 1)
             ELSE IF g.name[1] # "openstack-"
             THEN FindIgroupForInitiator(igroups, initiator_name, k + 1)
             ELSE IF g.initiators = {} THEN IndexRaises
             ELSE IF initiator_name \in g.initiators THEN g.name
             ELSE FindIgroupForInitiator(igroups, initiator_name, k + 1)

\* _get_lun_mappping: the maps of the path to the igroup.
GetLunMapping(maps, lunpath, igroup_name) ==
    {m \in maps : m.path = lunpath /\ m.igroup = igroup_name}

\* lun-map: the filer chooses the lowest LUN number free in the igroup.
LunIdAssigned(maps, igroup_name) ==
    LET used == {m.lun_id : m \in {x \in maps : x.igroup = igroup_name}}
    IN  CHOOSE n \in 0 .. Cardinality(maps) :
            /\ n \notin used
            /\ \A k \in 0 .. n - 1 : k \in used

\* _map_initiator
MapInitiator(maps, lunpath, igroup_name) ==
    maps \cup {[path |-> lunpath, igroup |-> igroup_name,
                lun_id |-> LunIdAssigned(maps, igroup_name)]}

MapLogEntry(op, lunpath, initiator_name, requests, result) ==
    [op |-> op, lunpath |-> lunpath, initiator |-> initiator_name,
     requests |-> requests, result |-> result]

\* The value of a call that returns None.
NoLun == -1

\* The value of a call left by exception.Error (_check_fail).
RaisedError == -2

\* The value of a call left by the error of the unguarded index.
RaisedTypeError == -3

\* A thread that runs no masking call.
IdleCall ==
    [pc |-> "idle", op |-> "None", lunpath |-> 0, initiator |-> 0,
     igroup_name |-> <<>>, requests |-> <<>>]

\* The filer lists its igroups in the order they were made. It answers a
\* request that repeats what is already done (an igroup that exists, a map
\* that exists, a map that is gone) with Status failed, or accepts it.
InitMap ==
    /\ \E igroups \in {<<>>, <<ForeignIgroup>>}, refuses \in BOOLEAN :
          netapp = [igroups |-> igroups, maps |-> {},
                    refuses_repeat |-> refuses,
                    running |-> [t \in MapThreads |-> IdleCall],
                    interleaved |-> FALSE, log |-> <<>>]
    /\ registry = [h \in Hosts |-> FactsGood]
    /\ conf = -1
    /\ instance = [host |-> 1, power_state |-> RUNNING, memory_mb |-> 2]
    /\ request = NoHost
    /\ source = instance.host
    /\ destination = request
    /\ migrate_data = NoData
    /\ attempted_hosts = <<>>
    /\ host = NoHost
    /\ pc = "check_instance_is_running"
    /\ raised = NotRaised
    /\ calls = <<>>
    /\ rollback_raised = "None"
    /\ block_migration = FALSE
    /\ parked = NoTask /\ ftu = Idle /\ auth = Idle /\ live = NoLive

\* self.client.service.ApiProxy(Target=host_id, Request=request) sent by
\* thread t; `interleaved` records that another call was under way.
ApiProxy(n, t, name) ==
    [n EXCEPT
        !.running[t].requests = Append(@, name),
        !.interleaved = @ \/ \E u \in MapThreads \ {t} :
                                  n.running[u].pc # "idle"]

\* The call of thread t returns `result` (or raises: RaisedError).
MapReturns(n, t, result) ==
    LET c == n.running[t]
    IN  [n EXCEPT
            !.running[t] = IdleCall,
            !.log = Append(@, MapLogEntry(c.op, c.lunpath, c.initiator,
                                          c.requests, result))]

\* A thread may start a call.
MayStart(t) ==
    /\ netapp.running[t].pc = "idle"
    /\ Len(netapp.log)
          + Cardinality({u \in MapThreads : netapp.running[u].pc # "idle"})
          < MaxMapCalls

\* _ensure_initiator_mapped(host_id, lunpath, initiator_name) up to its first
\* request, igroup-list-info of _find_igroup_for_initiator, whose error
\* leaves the call.
EnsureInitiatorMapped(t, lunpath, initiator_name) ==
    /\ MayStart(t)
    /\ LET found == FindIgroupForInitiator(netapp.igroups, initiator_name, 1)
           started == [netapp EXCEPT !.running[t] =
                          [IdleCall EXCEPT !.op = "map", !.lunpath = lunpath,
                                           !.initiator = initiator_name]]
           n == ApiProxy(started, t, "igroup-list-info")
       IN  netapp' =
             IF found = IndexRaises THEN MapReturns(n, t, RaisedTypeError)
             ELSE [n EXCEPT
                     !.running[t].pc = IF found = <<>> THEN "igroup_create"
                                       ELSE "get_lun_mapping",
                     !.running[t].igroup_name = found]
    /\ UNCHANGED not_netapp

\* _ensure_initiator_unmapped(host_id, lunpath, initiator_name) up to its
\* first request; without an igroup it returns, and the error of
\* _find_igroup_for_initiator leaves the call.
EnsureInitiatorUnmapped(t, lunpath, initiator_name) ==
    /\ MayStart(t)
    /\ LET found == FindIgroupForInitiator(netapp.igroups, initiator_name, 1)
           started == [netapp EXCEPT !.running[t] =
                          [IdleCall EXCEPT !.op = "unmap", !.lunpath = lunpath,
                                           !.initiator = initiator_name]]
           n == ApiProxy(started, t, "igroup-list-info")
       IN  netapp' = IF found = IndexRaises
                     THEN MapReturns(n, t, RaisedTypeError)
                     ELSE IF found = <<>> THEN MapReturns(n, t, NoLun)
                     ELSE [n EXCEPT !.running[t].pc = "get_lun_mapping",
                                    !.running[t].igroup_name = found]
    /\ UNCHANGED not_netapp

\* _create_igroup, first request: igroup-create makes an empty iscsi/linux
\* group named 'openstack-' + initiator_name.
IgroupCreate(t) ==
    /\ netapp.running[t].pc = "igroup_create"
    /\ LET name == IgroupName(netapp.running[t].initiator)
           exists == \E k \in 1 .. Len(netapp.igroups) :
                        netapp.igroups[k].name = name
           n == ApiProxy(netapp, t, "igroup-create")
       IN  netapp' =
             IF exists /\ netapp.refuses_repeat
             THEN MapReturns(n, t, RaisedError)
             ELSE [n EXCEPT
                     !.igroups = IF exists THEN @
                                 ELSE Append(@, [name |-> name,
                                                 type |-> "iscsi",
                                                 os |-> "linux",
                                                 initiators |-> {}]),
                     !.running[t].pc = "igroup_add"]
    /\ UNCHANGED not_netapp

\* _create_igroup, second request: igroup-add puts the initiator into the
\* group; `return igroup_name`.
IgroupAdd(t) ==
    /\ netapp.running[t].pc = "igroup_add"
    /\ LET c == netapp.running[t]
           name == IgroupName(c.initiator)
           held == \E k \in 1 .. Len(netapp.igroups) :
                      /\ netapp.igroups[k].name = name
                      /\ c.initiator \in netapp.igroups[k].initiators
           n == ApiProxy(netapp, t, "igroup-add")
       IN  netapp' =
             IF held /\ netapp.refuses_repeat
             THEN MapReturns(n, t, RaisedError)
             ELSE [n EXCEPT
                     !.igroups = [k \in 1 .. Len(netapp.igroups) |->
                                    IF netapp.igroups[k].name = name
                                    THEN [netapp.igroups[k] EXCEPT
                                            !.initiators = @ \cup {c.initiator}]
                                    ELSE netapp.igroups[k]],
                     !.running[t].pc = "get_lun_mapping",
                     !.running[t].igroup_name = name]
    /\ UNCHANGED not_netapp

\* Mutant of LunMapListInfo: a map call goes on to lun-map whatever the
\* answer.
LunMapListInfo_AlwaysMaps(t) ==
    /\ netapp.running[t].pc = "get_lun_mapping"
    /\ LET c == netapp.running[t]
           mapping == GetLunMapping(netapp.maps, VolPath(c.lunpath),
                                    c.igroup_name)
           n == ApiProxy(netapp, t, "lun-map-list-info")
       IN  IF c.op = "map"
           THEN netapp' = [n EXCEPT !.running[t].pc = "lun_map"]
           ELSE netapp' = IF mapping # {}
                          THEN [n EXCEPT !.running[t].pc = "lun_unmap"]
                          ELSE MapReturns(n, t, NoLun)
    /\ UNCHANGED not_netapp

\* _get_lun_mappping: lun-map-list-info for the path. A map call returns
\* the LUN number of a map to its igroup or goes on to lun-map; an unmap
\* call goes on to lun-unmap or returns.
LunMapListInfo(t) ==
    /\ netapp.running[t].pc = "get_lun_mapping"
    /\ LET c == netapp.running[t]
           mapping == GetLunMapping(netapp.maps, VolPath(c.lunpath),
                                    c.igroup_name)
           n == ApiProxy(netapp, t, "lun-map-list-info")
       IN  IF c.op = "map"
           THEN IF mapping # {}
                THEN \E m \in mapping : netapp' = MapReturns(n, t, m.lun_id)
                ELSE netapp' = [n EXCEPT !.running[t].pc = "lun_map"]
           ELSE netapp' = IF mapping # {}
                          THEN [n EXCEPT !.running[t].pc = "lun_unmap"]
                          ELSE MapReturns(n, t, NoLun)
    /\ UNCHANGED not_netapp

\* _map_initiator: lun-map; returns lun-id-assigned.
LunMap(t) ==
    /\ netapp.running[t].pc = "lun_map"
    /\ LET c == netapp.running[t]
           path == VolPath(c.lunpath)
           mapping == GetLunMapping(netapp.maps, path, c.igroup_name)
           n == ApiProxy(netapp, t, "lun-map")
       IN  netapp' =
             IF mapping # {} /\ netapp.refuses_repeat
             THEN MapReturns(n, t, RaisedError)
             ELSE MapReturns(
                    [n EXCEPT !.maps = MapInitiator(@, path, c.igroup_name)],
                    t, LunIdAssigned(netapp.maps, c.igroup_name))
    /\ UNCHANGED not_netapp

\* _unmap_initiator: lun-unmap.
LunUnmap(t) ==
    /\ netapp.running[t].pc = "lun_unmap"
    /\ LET c == netapp.running[t]
           mapping == GetLunMapping(netapp.maps, VolPath(c.lunpath),
                                    c.igroup_name)
           n == ApiProxy(netapp, t, "lun-unmap")
       IN  netapp' =
             IF mapping = {} /\ netapp.refuses_repeat
             THEN MapReturns(n, t, RaisedError)
             ELSE MapReturns([n EXCEPT !.maps = @ \ mapping], t, NoLun)
    /\ UNCHANGED not_netapp

NextMap ==
    \/ \E t \in MapThreads, l \in LunPaths, i \in Initiators :
          EnsureInitiatorMapped(t, l, i)
    \/ \E t \in MapThreads, l \in LunPaths, i \in Initiators :
          EnsureInitiatorUnmapped(t, l, i)
    \/ \E t \in MapThreads : IgroupCreate(t)
    \/ \E t \in MapThreads : IgroupAdd(t)
    \/ \E t \in MapThreads : LunMapListInfo(t)
    \/ \E t \in MapThreads : LunMap(t)
    \/ \E t \in MapThreads : LunUnmap(t)

SpecMap == InitMap /\ [][NextMap]_vars

\* ------------------------------------------- NovaKeystoneContext middleware
\* A seventh specification: requests sent one after the other through the
\* middleware wrapped around fake_app, as the tests of test_auth.py send them.

\* Most requests in one behaviour.
MaxAuthRequests == 3

\* A header that the request does not carry, and the context of a request
\* that made none.
None == "None"

\* The requests of the tests: X_TENANT_ID and X_AUTH_TOKEN always set, the
\* user headers and the service catalog as the test sets them.
AuthHeaders ==
    [X_USER_ID : {None, "testuserid"},
     X_USER : {None, "testuser"},
     X_SERVICE_CATALOG : {"{}", "bad json"}]

\* Mutant of UserId: the older header wins.
UserId_PrefersUser(headers) ==
    IF headers.X_USER # None THEN headers.X_USER ELSE headers.X_USER_ID

\* The user id the middleware takes from the headers: X_USER_ID if the
\* request carries it, else X_USER.
UserId(headers) ==
    IF headers.X_USER_ID # None THEN headers.X_USER_ID ELSE headers.X_USER

\* json.loads of the catalog header succeeds.
CatalogLoads(headers) == headers.X_SERVICE_CATALOG = "{}"

\* fake_app: keeps the context of the request and answers webob.Response().
FakeApp(headers, user_id) ==
    [headers |-> headers, status |-> "200 OK", app_invoked |-> TRUE,
     context_user_id |-> user_id]

\* A response of the middleware itself: the application is not called.
Refused(headers, status) ==
    [headers |-> headers, status |-> status, app_invoked |-> FALSE,
     context_user_id |-> None]

\* The responses the middleware may give. The tests fix three cases: no
\* user id with a catalog that parses is 401, a user id with a catalog that
\* does not parse is 500, a user id with a catalog that parses reaches the
\* application with the new context. No test sends a request without user id
\* whose catalog does not parse, so which of the two checks answers it is
\* left open: 401 or 500.
KeystoneContext(headers) ==
    IF UserId(headers) = None /\ CatalogLoads(headers)
    THEN {Refused(headers, "401 Unauthorized")}
    ELSE IF UserId(headers) = None
    THEN {Refused(headers, "401 Unauthorized"),
          Refused(headers, "500 Internal Server Error")}
    ELSE IF ~CatalogLoads(headers)
    THEN {Refused(headers, "500 Internal Server Error")}
    ELSE {FakeApp(headers, UserId(headers))}

not_auth == <<task_vars, ftu, netapp>>

InitAuth ==
    /\ auth = [pc |-> "ready", log |-> <<>>]
    /\ registry = [h \in Hosts |-> FactsGood]
    /\ conf = -1
    /\ instance = [host |-> 1, power_state |-> RUNNING, memory_mb |-> 2]
    /\ request = NoHost
    /\ source = instance.host
    /\ destination = request
    /\ migrate_data = NoData
    /\ attempted_hosts = <<>>
    /\ host = NoHost
    /\ pc = "check_instance_is_running"
    /\ raised = NotRaised
    /\ calls = <<>>
    /\ rollback_raised = "None"
    /\ block_migration = FALSE
    /\ parked = NoTask /\ ftu = Idle /\ netapp = Idle /\ live = NoLive

\* self.request.get_response(self.middleware)
GetResponse ==
    /\ auth.pc = "ready"
    /\ Len(auth.log) < MaxAuthRequests
    /\ \E headers \in AuthHeaders :
          \E response \in KeystoneContext(headers) :
              auth' = [auth EXCEPT !.log = Append(@, response)]
    /\ UNCHANGED not_auth

NextAuth == GetResponse

SpecAuth == InitAuth /\ [][NextAuth]_vars

\* ------------------------------------------------ NetApp list iterators
\* An eighth specification: one call of a function that walks a server-side
\* list: _get_job_progress, _does_dataset_exist, _get_lun_id,
\* _get_lun_details or _get_host_details. Every SOAP call is one step and is
\* logged with the tag it carried (IterStart: the tag it returned).

\* Most non-empty pages the server holds for one iterator.
MaxIterPages == 2

\* The task of the conductor, not started, as the driver specifications
\* leave it.
TaskNotStarted ==
    /\ registry = [h \in Hosts |-> FactsGood]
    /\ conf = -1
    /\ instance = [host |-> 1, power_state |-> RUNNING, memory_mb |-> 2]
    /\ request = NoHost
    /\ source = instance.host
    /\ destination = request
    /\ migrate_data = NoData
    /\ attempted_hosts = <<>>
    /\ host = NoHost
    /\ pc = "check_instance_is_running"
    /\ raised = NotRaised
    /\ calls = <<>>
    /\ rollback_raised = "None"
    /\ block_migration = FALSE
    /\ parked = NoTask
    /\ live = NoLive

\* The list API each function walks.
IterKinds ==
    {"DpJobProgressEventList", "DatasetListInfo", "DatasetMemberListInfo",
     "LunListInfo", "HostListInfo"}

\* Tags the server may hand out.
IterTags == {"tag_a", "tag_b"}

\* A non-empty page: it holds the entry looked for ("hit") or not ("miss").
IterPages ==
    UNION {[1 .. n -> {"hit", "miss"}] : n \in 0 .. MaxIterPages}

IterRequest(name, tag, exc) == [name |-> name, tag |-> tag, exc |-> exc]

InitIter ==
    /\ \E kind \in IterKinds, pages \in IterPages :
          netapp = [pc |-> "iter_start", kind |-> kind, pages |-> pages,
                    tag |-> "None", requests |-> <<>>, pending |-> "None",
                    result |-> "None"]
    /\ TaskNotStarted
    /\ ftu = Idle /\ auth = Idle

\* <List>IterStart and `tag = res.Tag`. A WebFault of the call makes
\* _does_dataset_exist return False and leaves the other functions as it is.
IterStart ==
    /\ netapp.pc = "iter_start"
    /\ \/ \E t \in IterTags :
            netapp' = [netapp EXCEPT
                !.pc = "iter_next", !.tag = t,
                !.requests = Append(@, IterRequest("IterStart", t, "None"))]
       \/ netapp' = [netapp EXCEPT
            !.pc = IF netapp.kind = "DatasetListInfo" THEN "returned"
                   ELSE "raised",
            !.result = IF netapp.kind = "DatasetListInfo" THEN "False"
                       ELSE "WebFault",
            !.requests = Append(@, IterRequest("IterStart", "None", "WebFault"))]
    /\ UNCHANGED not_netapp

\* Where the body of the try goes after an IterNext that returned `page`
\* ("empty": the result has no entries): on to the next IterNext, or out of
\* the try with a value.
AfterIterNext(kind, page) ==
    IF kind = "DpJobProgressEventList"
    THEN IF page = "empty" THEN [pc |-> "iter_end", result |-> "event_list"]
         ELSE [pc |-> "iter_next", result |-> "None"]
    ELSE IF kind = "DatasetMemberListInfo"
    THEN IF page = "empty" THEN [pc |-> "iter_end", result |-> "NoneValue"]
         ELSE IF page = "hit" THEN [pc |-> "iter_end", result |-> "MemberId"]
         ELSE [pc |-> "iter_next", result |-> "None"]
    ELSE IF kind = "DatasetListInfo"
    THEN [pc |-> "iter_end",
          result |-> IF page = "empty" THEN "False" ELSE "True"]
    ELSE [pc |-> "iter_end",
          result |-> IF page = "empty" THEN "NoneValue" ELSE "Info"]

\* Mutant of IterNext: an error of the call leaves the function at once.
IterNext_LeaksOnError ==
    /\ netapp.pc = "iter_next"
    /\ \/ LET page == IF netapp.pages = <<>> THEN "empty"
                      ELSE Head(netapp.pages)
              a == AfterIterNext(netapp.kind, page)
          IN  netapp' = [netapp EXCEPT
                !.pc = a.pc,
                !.pending = IF a.pc = "iter_end" THEN "returned" ELSE "None",
                !.result = a.result,
                !.pages = IF @ = <<>> THEN @ ELSE Tail(@),
                !.requests = Append(@, IterRequest("IterNext", netapp.tag,
                                                   "None"))]
       \/ netapp' = [netapp EXCEPT
            !.pc = "raised",
            !.result = "WebFault",
            !.requests = Append(@, IterRequest("IterNext", netapp.tag,
                                               "WebFault"))]
    /\ UNCHANGED not_netapp

\* <List>IterNext(Tag=tag) inside the try: the next page, or an error of the
\* call, which leaves the try through the finally clause.
IterNext ==
    /\ netapp.pc = "iter_next"
    /\ \/ LET page == IF netapp.pages = <<>> THEN "empty"
                      ELSE Head(netapp.pages)
              a == AfterIterNext(netapp.kind, page)
          IN  netapp' = [netapp EXCEPT
                !.pc = a.pc,
                !.pending = IF a.pc = "iter_end" THEN "returned" ELSE "None",
                !.result = a.result,
                !.pages = IF @ = <<>> THEN @ ELSE Tail(@),
                !.requests = Append(@, IterRequest("IterNext", netapp.tag,
                                                   "None"))]
       \/ netapp' = [netapp EXCEPT
            !.pc = "iter_end",
            !.pending = "raised",
            !.result = "WebFault",
            !.requests = Append(@, IterRequest("IterNext", netapp.tag,
                                               "WebFault"))]
    /\ UNCHANGED not_netapp

\* finally: <List>IterEnd(Tag=tag); then the pending return or raise, or the
\* error of IterEnd itself.
IterEnd ==
    /\ netapp.pc = "iter_end"
    /\ \/ netapp' = [netapp EXCEPT
            !.pc = netapp.pending,
            !.requests = Append(@, IterRequest("IterEnd", netapp.tag, "None"))]
       \/ netapp' = [netapp EXCEPT
            !.pc = "raised",
            !.result = "WebFault",
            !.requests = Append(@, IterRequest("IterEnd", netapp.tag,
                                               "WebFault"))]
    /\ UNCHANGED not_netapp

NextIter ==
    \/ IterStart
    \/ IterNext
    \/ IterEnd

SpecIter == InitIter /\ [][NextIter]_vars

\* ------------------------------------------------ NetApp dataset edits
\* A ninth specification: _provision and _remove_destroy calls made one
\* after the other, from DatasetEditBegin on. The server keeps the state of
\* every edit lock it handed out; every SOAP call is one step and may fail,
\* the calls of _wait_for_job after the commit of _provision included.

\* Most operations in one behaviour.
MaxEditOps == 2

\* Most jobs a commit starts (res.JobIds.JobInfo).
MaxProvisionJobs == 1

\* Longest progress-event list one poll collects.
MaxProvisionEvents == 2

EditOps == {"_provision", "_remove_destroy"}

\* DpJobProgressEventInfo of a provisioning job: EventType and EventStatus.
ProvisionEvents ==
    [EventType : {"progress", "lun-create", "job-end"},
     EventStatus : {"normal", "error"}]

\* A SOAP call as the server saw it; lock 0: the call carries no edit lock.
EditRequest(name, lock_id, exc) == [name |-> name, lock |-> lock_id, exc |-> exc]

\* An operation that has returned ("None") or raised.
EditDone(op, lock_id, exc) == [op |-> op, lock |-> lock_id, raised |-> exc]

InitEdit ==
    /\ netapp = [pc |-> "ready", op |-> "None", lock_id |-> 0, locks |-> <<>>,
                 requests |-> <<>>, done |-> <<>>, jobs |-> 0, polls |-> 0,
                 event_list |-> <<>>, pending |-> "None", lun_id |-> FALSE]
    /\ TaskNotStarted
    /\ ftu = Idle /\ auth = Idle

\* The operation leaves: it returned ("None") or raised `exc`; its locals
\* are gone.
EditLeaves(requests, exc) ==
    [netapp EXCEPT
        !.pc = "ready",
        !.requests = requests,
        !.done = Append(@, EditDone(netapp.op, netapp.lock_id, exc)),
        !.jobs = 0, !.polls = 0, !.event_list = <<>>, !.pending = "None",
        !.lun_id = FALSE]

\* lock_id = server.DatasetEditBegin(DatasetNameOrId=dataset_name), outside
\* the try: an error of the call leaves the operation.
DatasetEditBegin(op) ==
    /\ netapp.pc = "ready"
    /\ Len(netapp.done) < MaxEditOps
    /\ \/ LET id == Len(netapp.locks) + 1
          IN  netapp' = [netapp EXCEPT
                !.pc = "member", !.op = op, !.lock_id = id,
                !.locks = Append(@, "open"),
                !.requests = Append(@, EditRequest("DatasetEditBegin", id,
                                                   "None"))]
       \/ netapp' = [netapp EXCEPT
            !.requests = Append(@, EditRequest("DatasetEditBegin", 0,
                                               "WebFault")),
            !.done = Append(@, EditDone(op, 0, "WebFault"))]
    /\ UNCHANGED not_netapp

\* DatasetProvisionMember / DatasetRemoveMember(EditLockId=lock_id), first
\* call of the try.
DatasetEditMember ==
    /\ netapp.pc = "member"
    /\ \E exc \in {"None", "WebFault"} :
          netapp' = [netapp EXCEPT
            !.pc = IF exc = "None" THEN "commit" ELSE "rollback",
            !.requests = Append(@, EditRequest(
                IF netapp.op = "_provision" THEN "DatasetProvisionMember"
                ELSE "DatasetRemoveMember", netapp.lock_id, exc))]
    /\ UNCHANGED not_netapp

\* DatasetEditCommit(EditLockId=lock_id), second call of the try. After it
\* _remove_destroy returns; _provision walks res.JobIds.JobInfo, and with no
\* job in it falls through to `if not lun_id: raise Error`.
DatasetEditCommit ==
    /\ netapp.pc = "commit"
    /\ LET requests == Append(netapp.requests,
                              EditRequest("DatasetEditCommit", netapp.lock_id,
                                          "None"))
       IN  \/ /\ netapp.op = "_remove_destroy"
              /\ netapp' = [EditLeaves(requests, "None") EXCEPT
                                !.locks[netapp.lock_id] = "committed"]
           \/ /\ netapp.op = "_provision"
              /\ \E n \in 0 .. MaxProvisionJobs :
                    netapp' =
                      IF n = 0
                      THEN [EditLeaves(requests, "Error") EXCEPT
                                !.locks[netapp.lock_id] = "committed"]
                      ELSE [netapp EXCEPT
                                !.pc = "job_iter_start",
                                !.locks[netapp.lock_id] = "committed",
                                !.requests = requests,
                                !.jobs = n]
           \/ netapp' = [netapp EXCEPT
                !.pc = "rollback",
                !.requests = Append(@, EditRequest("DatasetEditCommit",
                                                   netapp.lock_id, "WebFault"))]
    /\ UNCHANGED not_netapp

\* The except clause: server.DatasetEditRollback(EditLockId=lock_id), then
\* raise exception.Error; an error of the rollback call itself leaves the
\* handler instead.
DatasetEditRollback ==
    /\ netapp.pc = "rollback"
    /\ \/ netapp' = [EditLeaves(Append(netapp.requests,
                                       EditRequest("DatasetEditRollback",
                                                   netapp.lock_id, "None")),
                                "Error") EXCEPT
                        !.locks[netapp.lock_id] = "rolled_back"]
       \/ netapp' = EditLeaves(Append(netapp.requests,
                                      EditRequest("DatasetEditRollback",
                                                  netapp.lock_id, "WebFault")),
                               "WebFault")
    /\ UNCHANGED not_netapp

\* _get_job_progress, called by _wait_for_job for the job at hand:
\* DpJobProgressEventListIterStart(JobId=job_id), outside the try. An error
\* of the call leaves _provision, the edit committed.
ProvisionIterStart ==
    /\ netapp.pc = "job_iter_start"
    /\ netapp.polls < MaxPolls
    /\ \/ netapp' = [netapp EXCEPT
            !.pc = "job_iter_next", !.event_list = <<>>,
            !.requests = Append(@, EditRequest(
                "DpJobProgressEventListIterStart", 0, "None"))]
       \/ netapp' = EditLeaves(Append(netapp.requests, EditRequest(
                "DpJobProgressEventListIterStart", 0, "WebFault")), "WebFault")
    /\ UNCHANGED not_netapp

\* DpJobProgressEventListIterNext inside the try: a page of events added to
\* event_list, a result without ProgressEvents (break), or an error of the
\* call; the last two go to the finally clause.
ProvisionIterNext ==
    /\ netapp.pc = "job_iter_next"
    /\ \/ /\ Len(netapp.event_list) < MaxProvisionEvents
          /\ \E e \in ProvisionEvents :
                netapp' = [netapp EXCEPT
                    !.event_list = Append(@, e),
                    !.requests = Append(@, EditRequest(
                        "DpJobProgressEventListIterNext", 0, "None"))]
       \/ netapp' = [netapp EXCEPT
            !.pc = "job_iter_end", !.pending = "None",
            !.requests = Append(@, EditRequest(
                "DpJobProgressEventListIterNext", 0, "None"))]
       \/ netapp' = [netapp EXCEPT
            !.pc = "job_iter_end", !.pending = "WebFault",
            !.requests = Append(@, EditRequest(
                "DpJobProgressEventListIterNext", 0, "WebFault"))]
    /\ UNCHANGED not_netapp

\* _get_job_progress has returned event_list: the for loop of _wait_for_job
\* raises Error, returns the events to _provision (which takes the LUN id
\* from them and goes to the next job, or past the loop to
\* `if not lun_id: raise Error`), or falls through to time.sleep(5) and the
\* next poll. lun_id is set when some returned event is a 'lun-create'
\* event.
AfterGetJobProgress(requests) ==
    LET v == ScanEvents(netapp.event_list, 1)
        lun_id == \/ netapp.lun_id
                  \/ \E i \in 1 .. Len(netapp.event_list) :
                        netapp.event_list[i].EventType = "lun-create"
    IN  CASE v = "raise" -> EditLeaves(requests, "Error")
          [] v = "return" ->
                IF netapp.jobs = 1
                THEN EditLeaves(requests, IF lun_id THEN "None" ELSE "Error")
                ELSE [netapp EXCEPT
                        !.pc = "job_iter_start", !.requests = requests,
                        !.jobs = @ - 1, !.polls = 0, !.event_list = <<>>,
                        !.lun_id = lun_id]
          [] OTHER -> [netapp EXCEPT
                        !.pc = "job_iter_start", !.requests = requests,
                        !.polls = @ + 1, !.event_list = <<>>]

\* finally: DpJobProgressEventListIterEnd(Tag=tag); then the pending error
\* of IterNext, the return of event_list, or the error of IterEnd itself.
ProvisionIterEnd ==
    /\ netapp.pc = "job_iter_end"
    /\ \/ LET requests == Append(netapp.requests, EditRequest(
                              "DpJobProgressEventListIterEnd", 0, "None"))
          IN  netapp' = IF netapp.pending = "WebFault"
                        THEN EditLeaves(requests, "WebFault")
                        ELSE AfterGetJobProgress(requests)
       \/ netapp' = EditLeaves(Append(netapp.requests, EditRequest(
                "DpJobProgressEventListIterEnd", 0, "WebFault")), "WebFault")
    /\ UNCHANGED not_netapp

NextEdit ==
    \/ \E op \in EditOps : DatasetEditBegin(op)
    \/ DatasetEditMember
    \/ DatasetEditCommit
    \/ DatasetEditRollback
    \/ ProvisionIterStart
    \/ ProvisionIterNext
    \/ ProvisionIterEnd

SpecEdit == InitEdit /\ [][NextEdit]_vars

\* ============================================================== properties
\* Vocabulary of the properties, stated over the raw registry facts and the
\* call log rather than over the operators that model the code.

SchedulerOp == "select_hosts"
PrecheckOp  == "check_can_live_migrate_destination"
TriggerOp   == "live_migration"

CallIdx(op) == {i \in 1 .. Len(calls) : calls[i].op = op}
NoCallOf(ops) == \A i \in 1 .. Len(calls) : calls[i].op \notin ops
LastCall == calls[Len(calls)]

InstanceRunning   == instance.power_state = "RUNNING"
SourceUnavailable == ~registry[source].known \/ ~registry[source].up
Ended             == pc \in {"failed", "done"}
\* The selection loop was entered and has not accepted a host.
EndedInSelection  ==
    request = NoHost /\ pc = "failed" /\ attempted_hosts # <<>> /\ destination = NoHost

\* ---------------------------------------------------------------------- C1
\* C1: a request whose instance is not RUNNING can only fail, with
\* InstanceNotRunning, and the log never holds a scheduler call or a compute
\* call (precheck, trigger), before or after the failure.
C1_NotRunningFailsBeforeAnyCall ==
    ~InstanceRunning =>
        /\ pc \in {"check_instance_is_running", "failed"}
        /\ (pc = "failed" => raised.kind = "InstanceNotRunning")
        /\ NoCallOf({SchedulerOp, PrecheckOp, TriggerOp})

C1_Witness ==
    /\ ~InstanceRunning
    /\ pc = "failed"
    /\ raised.kind = "InstanceNotRunning"
    /\ request = NoHost

\* ---------------------------------------------------------------------- C2
\* C2 as stated: whenever the source host is missing or down, the execution
\* that has ended has failed with ComputeServiceUnavailable for the source.
C2_AsStated ==
    (SourceUnavailable /\ Ended) =>
        (raised.kind = "ComputeServiceUnavailable" /\ raised.host = source)

\* C2 amended: for a RUNNING instance whose source host is missing or down,
\* execute can only fail, with ComputeServiceUnavailable for the source host,
\* having made a single registry lookup (of the source) and no scheduler
\* request, destination lookup, precheck or trigger call.
C2_SourceUnavailableFails ==
    (InstanceRunning /\ SourceUnavailable) =>
        /\ pc \in {"check_instance_is_running", "check_source_is_up", "failed"}
        /\ (pc = "failed" =>
              raised.kind = "ComputeServiceUnavailable" /\ raised.host = source)
        /\ Len(calls) <= 1
        /\ \A i \in 1 .. Len(calls) :
              calls[i].op = "service_get_by_compute_host" /\ calls[i].host = source
        /\ attempted_hosts = <<>>

C2_Witness ==
    /\ InstanceRunning
    /\ registry[source].known /\ ~registry[source].up
    /\ pc = "failed"
    /\ raised.kind = "ComputeServiceUnavailable" /\ raised.host = source

\* ---------------------------------------------------------------------- C3
\* C3 as stated: every request with destination == source that has ended has
\* failed with UnableToMigrateToSelf.
C3_AsStated ==
    (request = source /\ Ended) => raised.kind = "UnableToMigrateToSelf"

\* C3 amended: a request with destination == source never consults the
\* scheduler (nor makes a compute call) and never succeeds; when the instance
\* is RUNNING and the source host is up it fails with UnableToMigrateToSelf,
\* otherwise with the failure of the earlier precondition.
C3_MigrateToSelfFails ==
    request = source =>
        /\ NoCallOf({SchedulerOp, PrecheckOp, TriggerOp})
        /\ pc # "done"
        /\ (pc = "failed" /\ InstanceRunning /\ ~SourceUnavailable)
              => (raised.kind = "UnableToMigrateToSelf" /\ raised.host = source)
        /\ (pc = "failed" /\ ~InstanceRunning)
              => raised.kind = "InstanceNotRunning"
        /\ (pc = "failed" /\ InstanceRunning /\ SourceUnavailable)
              => raised.kind = "ComputeServiceUnavailable"

C3_Witness ==
    /\ request = source
    /\ pc = "failed"
    /\ raised.kind = "UnableToMigrateToSelf"

\* ---------------------------------------------------------------------- C4
\* The first check of _check_requested_destination's order that the explicit
\* destination fails, read off the registry facts.
DestinationUnavailable == ~registry[request].known \/ ~registry[request].up
DestinationCapacityBad ==
    \/ Len(registry[request].aggregates) # 1
    \/ instance.memory_mb = 0
    \/ registry[request].memory_mb
          * registry[request].aggregates[1].ram_allocation_ratio_x10
          - 10 * registry[request].memory_mb_used <= 10 * instance.memory_mb
ExpectedLocalFailure ==
    IF request = source THEN "UnableToMigrateToSelf"
    ELSE IF DestinationUnavailable THEN "ComputeServiceUnavailable"
    ELSE IF DestinationCapacityBad THEN "MigrationPreCheckError"
    ELSE IF registry[source].hypervisor_type # registry[request].hypervisor_type
      THEN "InvalidHypervisorType"
    ELSE IF registry[request].hypervisor_version < registry[source].hypervisor_version
      THEN "DestinationHypervisorTooOld"
    ELSE "ok"

\* C4: with an explicit destination the scheduler is never asked, no host
\* other than the requested one is looked up, prechecked or made the
\* destination, and a failing check (identity, liveness, capacity,
\* hypervisor, precheck RPC) ends the workflow with that failure and without
\* a trigger call.
C4_ExplicitDestinationNeverRetries ==
    request # NoHost =>
        /\ NoCallOf({SchedulerOp})
        /\ attempted_hosts = <<>> /\ host = NoHost /\ destination = request
        /\ \A i \in 1 .. Len(calls) : calls[i].host \in {source, request}
        /\ Cardinality(CallIdx(PrecheckOp)) <= 1
        /\ (InstanceRunning /\ ~SourceUnavailable /\ ExpectedLocalFailure # "ok") =>
              /\ NoCallOf({PrecheckOp, TriggerOp})
              /\ pc # "done"
              /\ (pc = "failed" => raised.kind = ExpectedLocalFailure)
        /\ \A i \in CallIdx(PrecheckOp) :
              ~calls[i].ok =>
                  /\ i = Len(calls)
                  /\ pc = "failed"
                  /\ raised.kind = calls[i].exc
                  /\ raised.host = request

\* An explicit destination failed its capacity check although another host
\* is up, has room and a compatible hypervisor.
C4_Witness ==
    /\ request # NoHost
    /\ pc = "failed"
    /\ raised.kind = "MigrationPreCheckError"
    /\ \E h \in Hosts \ {source, request} :
          /\ registry[h].known /\ registry[h].up
          /\ Len(registry[h].aggregates) = 1
          /\ registry[h].memory_mb * registry[h].aggregates[1].ram_allocation_ratio_x10
               - 10 * registry[h].memory_mb_used > 10 * instance.memory_mb
          /\ registry[h].hypervisor_type = registry[source].hypervisor_type
          /\ registry[h].hypervisor_version >= registry[source].hypervisor_version

\* ---------------------------------------------------------------------- C5
\* C5: every trigger call directly follows a precheck call that succeeded
\* for the very host passed as dest, and carries exactly the data that
\* precheck returned (never None, never anything tied to a rejected host).
C5_TriggerCarriesPrecheckData ==
    \A i \in CallIdx(TriggerOp) :
        /\ i > 1
        /\ calls[i - 1].op = PrecheckOp
        /\ calls[i - 1].ok
        /\ calls[i - 1].host = calls[i].host
        /\ calls[i].migrate_data = calls[i - 1].migrate_data
        /\ calls[i].migrate_data # NoData
        /\ \A j \in CallIdx(PrecheckOp) : j < i - 1 => ~calls[j].ok

\* A trigger call made on the selection path after a candidate was rejected
\* by its precheck.
C5_Witness ==
    /\ request = NoHost
    /\ pc = "done"
    /\ LastCall.op = TriggerOp
    /\ \E j \in CallIdx(PrecheckOp) : ~calls[j].ok

\* ---------------------------------------------------------------------- C6
Rejected == Len(attempted_hosts) - 1

\* C6: with migrate_max_retries = N >= 0 and no explicit destination the
\* scheduler is asked at most N+1 times; the budget failure happens exactly
\* when N+1 candidates have been rejected, as NoValidHost, before the
\* scheduler is contacted again (N = 0: one attempt, no retry).
C6_RetryBudget ==
    (conf >= 0 /\ request = NoHost /\ attempted_hosts # <<>>) =>
        /\ Cardinality(CallIdx(SchedulerOp)) <= conf + 1
        /\ Rejected <= conf + 1
        /\ Rejected = conf + 1 =>
              /\ pc \in {"check_not_over_max_retries", "failed"}
              /\ Cardinality(CallIdx(SchedulerOp)) = conf + 1
              /\ (pc = "failed" =>
                    raised.kind = "NoValidHost" /\ raised.reason = "max_retries")
        /\ raised.reason = "max_retries" => Rejected = conf + 1

C6_Witness ==
    /\ conf = 1
    /\ request = NoHost
    /\ pc = "failed"
    /\ raised.kind = "NoValidHost" /\ raised.reason = "max_retries"
    /\ Cardinality(CallIdx(SchedulerOp)) = 2

\* ---------------------------------------------------------------------- C7
\* C7 as stated, on deployments where every host has a service record: with
\* migrate_max_retries = -1 a selection loop that ends without accepting a
\* candidate has ended by the scheduler reporting that no candidates remain.
C7_AsStated ==
    (conf = -1 /\ EndedInSelection /\ \A h \in Hosts : registry[h].known) =>
        (raised.reason = "scheduler" /\ LastCall.op = SchedulerOp)

\* C7 amended: with migrate_max_retries = -1 the selection loop never fails
\* because of the retry budget, however many candidates were rejected; it
\* ends only by accepting a candidate, by the scheduler call failing or
\* returning no host, or by a non-Invalid error of a candidate's registry
\* lookup or precheck call, which propagates.
C7_UnlimitedNeverExhaustsBudget ==
    (conf = -1 /\ request = NoHost) =>
        /\ raised.reason # "max_retries"
        /\ (pc = "check_not_over_max_retries") => raised = NotRaised
        /\ EndedInSelection =>
              \/ /\ raised.kind \in {"NoValidHost", "IndexError"}
                 /\ raised.reason = "scheduler"
                 /\ LastCall.op = SchedulerOp
              \/ /\ LastCall.op \in {PrecheckOp, "service_get_by_compute_host"}
                 /\ LastCall.exc \notin {"None", "Invalid"}
                 /\ raised.kind = LastCall.exc

\* Every host but the source has been rejected and the budget check still
\* lets the loop ask the scheduler.
C7_Witness ==
    /\ conf = -1
    /\ request = NoHost
    /\ Len(attempted_hosts) = NumHosts
    /\ pc = "get_candidate_destination"

\* ---------------------------------------------------------------------- C8
\* C8: the candidate under evaluation is neither the source nor a host
\* rejected before, the attempted hosts hold no host twice, and no two
\* scheduler answers of one execution name the same host.
C8_RejectedHostNeverOfferedAgain ==
    /\ host # NoHost =>
          /\ host # source
          /\ \A i \in 1 .. Len(attempted_hosts) : attempted_hosts[i] # host
    /\ \A i, j \in 1 .. Len(attempted_hosts) :
          i # j => attempted_hosts[i] # attempted_hosts[j]
    /\ \A i, j \in CallIdx(SchedulerOp) :
          (i < j /\ calls[j].host # NoHost) =>
              /\ calls[i].host # calls[j].host
              /\ calls[j].host # source

\* A second candidate is under evaluation after the first was rejected.
C8_Witness ==
    /\ Len(attempted_hosts) = 2
    /\ host # NoHost
    /\ pc = "candidate_get_destination_info"

\* ---------------------------------------------------------------------- C9
HypervisorMismatch(h) ==
    /\ registry[source].known /\ registry[h].known
    /\ \/ registry[source].hypervisor_type # registry[h].hypervisor_type
       \/ registry[h].hypervisor_version < registry[source].hypervisor_version

\* The step appends the candidate to the attempted hosts and goes back to
\* the budget check that precedes the next scheduler request.
CandidateSkipped ==
    /\ attempted_hosts' = Append(attempted_hosts, host)
    /\ pc' = "check_not_over_max_retries"
    /\ raised' = NotRaised
    /\ UNCHANGED <<destination, migrate_data>>

\* C9: in destination selection a candidate that fails the hypervisor check
\* (type differs, or version older than the source's), or whose precheck
\* call raises an Invalid, does not fail the workflow: it is appended to the
\* attempted hosts and the loop goes on to the next scheduler request,
\* subject to the retry budget.
C9_IncompatibleCandidateIsSkipped ==
    [][ /\ (pc = "candidate_get_destination_info" /\ HypervisorMismatch(host))
            => CandidateSkipped
        /\ (pc = "candidate_livem_checks" /\ calls'[Len(calls')].exc = "Invalid")
            => CandidateSkipped
      ]_vars

\* One candidate was skipped for its hypervisor, a later one for an Invalid
\* from its precheck, and the loop is about to ask the scheduler again.
C9_Witness ==
    /\ Len(attempted_hosts) = 3
    /\ HypervisorMismatch(attempted_hosts[2])
    /\ \E i \in CallIdx(PrecheckOp) :
          calls[i].host = attempted_hosts[3] /\ calls[i].exc = "Invalid"
    /\ pc = "get_candidate_destination"

\* --------------------------------------------------------------------- C10
CapacityBad(h) ==
    \/ Len(registry[h].aggregates) # 1
    \/ registry[h].memory_mb * registry[h].aggregates[1].ram_allocation_ratio_x10
          - 10 * registry[h].memory_mb_used <= 10 * instance.memory_mb

\* C10: a scheduler-supplied candidate whose capacity check fails with
\* MigrationPreCheckError (not in exactly one aggregate, or too little
\* oversubscribed memory for an instance with a memory requirement) is
\* excluded and selection continues: the candidate is never accepted as
\* destination, and the workflow does not fail with MigrationPreCheckError.
C10_CapacityFailureExcludesCandidate ==
    [][ (pc = "candidate_livem_checks" /\ instance.memory_mb > 0 /\ CapacityBad(host))
          => (pc' # "live_migration" /\ raised'.kind # "MigrationPreCheckError")
      ]_vars

\* --------------------------------------------------------------------- C11
\* C11: a candidate supplied by the scheduler is accepted only after it
\* passed the capacity check: when no destination was requested, the trigger
\* call never goes to a host that is not in exactly one aggregate or whose
\* total * ratio - used is at most the instance's memory_mb.
C11_AutoSelectedHostHasCapacity ==
    request = NoHost =>
        \A i \in CallIdx(TriggerOp) : ~CapacityBad(calls[i].host)

\* --------------------------------------------------------------------- C12
CandidateNotLive(h) == ~registry[h].known \/ ~registry[h].up

\* C12: in destination selection a candidate that the registry does not know
\* or that is not live is rejected like any retryable failure: the step that
\* evaluates it appends it to the attempted hosts and returns to the loop,
\* without failing the workflow and without accepting the host.
C12_UnavailableCandidateIsSkipped ==
    [][ /\ (pc = "candidate_get_destination_info" /\ CandidateNotLive(host))
            => CandidateSkipped
        /\ (pc = "candidate_livem_checks" /\ CandidateNotLive(host))
            => pc' # "live_migration"
      ]_vars

\* --------------------------------------------------------------------- C13
\* A scheduler request that produced no candidate: it raised, or it returned
\* an empty list.
NoCandidate(c) == c.op = SchedulerOp /\ c.host = NoHost

\* C13: when the scheduler reports no candidate, by failing or by returning
\* zero hosts, the workflow ends at once with NoValidHost: that request is
\* the last call made, no host is appended to the attempted hosts by it, and
\* nothing is dispatched.
C13_NoCandidateEndsWithNoValidHost ==
    \A i \in 1 .. Len(calls) :
        NoCandidate(calls[i]) =>
            /\ i = Len(calls)
            /\ pc = "failed"
            /\ raised.kind = "NoValidHost"
            /\ attempted_hosts = calls[i].ignore_hosts
            /\ NoCallOf({TriggerOp})

\* --------------------------------------------------------------------- C14
\* The memory figures of the capacity check, read from the registry.
ExactAvailX10(h) ==
    registry[h].memory_mb * registry[h].aggregates[1].ram_allocation_ratio_x10
        - 10 * registry[h].memory_mb_used

FailsWith(kind) == pc' = "failed" /\ raised'.kind = kind

\* C14: for a destination in exactly one aggregate the capacity check fails
\* with MigrationPreCheckError exactly when the instance's memory_mb is unset
\* or zero, or available <= memory_mb, where available is
\* total * ratio - used; the boundary is inclusive (available = memory_mb
\* fails, available = memory_mb + 1 passes).
C14_CapacityCheckBoundary ==
    [][ (pc = "memory_get_used"
            /\ Len(registry[destination].aggregates) = 1)
          => (FailsWith("MigrationPreCheckError")
                <=> \/ instance.memory_mb = 0
                    \/ ExactAvailX10(destination) <= 10 * instance.memory_mb)
      ]_vars

\* --------------------------------------------------------------------- C15
AggregateOp == "aggregate_get_by_host"

\* C15: the capacity check requires the destination to be in exactly one
\* aggregate.  With none or several it fails with MigrationPreCheckError
\* having made the aggregate query and nothing else: no compute-node read for
\* the memory computation, no hypervisor check, no precheck RPC.  With
\* exactly one, the verdict is the one that aggregate's ram_allocation_ratio
\* gives (available below memory_mb fails, above it passes).
C15_ExactlyOneAggregate ==
    [][ /\ (pc = "check_destination_has_enough_memory"
              /\ Len(registry[destination].aggregates) # 1) =>
                /\ FailsWith("MigrationPreCheckError")
                /\ calls' = Append(calls, Call(AggregateOp, destination, <<>>,
                                               NoData, "None"))
        /\ (pc = "check_destination_has_enough_memory"
              /\ Len(registry[destination].aggregates) = 1) =>
                (pc' = "memory_get_total" /\ raised' = NotRaised)
        /\ (/\ pc = "memory_get_used"
            /\ Len(registry[destination].aggregates) = 1
            /\ ExactAvailX10(destination) < 10 * instance.memory_mb)
                => FailsWith("MigrationPreCheckError")
        /\ (/\ pc = "memory_get_used"
            /\ Len(registry[destination].aggregates) = 1
            /\ instance.memory_mb > 0
            /\ ExactAvailX10(destination) > 10 * instance.memory_mb)
                => (pc' = "check_compatible_with_source_hypervisor"
                    /\ raised' = NotRaised)
      ]_vars

\* The requested destination is in several aggregates and the workflow
\* failed right after the aggregate query.
C15_Witness ==
    /\ pc = "failed"
    /\ request # NoHost
    /\ Len(registry[request].aggregates) > 1
    /\ raised.kind = "MigrationPreCheckError"
    /\ LastCall.op = AggregateOp

\* --------------------------------------------------------------------- C16
AggregateNames(h) ==
    [i \in 1 .. Len(registry[h].aggregates) |-> registry[h].aggregates[i].name]

\* C16: when the requested destination is in more than one aggregate, the
\* MigrationPreCheckError that ends the workflow lists the names of all the
\* aggregates of the destination.
C16_ErrorListsEveryAggregate ==
    (/\ pc = "failed"
     /\ request # NoHost
     /\ raised.kind = "MigrationPreCheckError"
     /\ Len(registry[request].aggregates) > 1)
        => raised.agg_name = AggregateNames(request)

\* --------------------------------------------------------------------- C17
HypervisorCompatible(h) ==
    /\ registry[source].hypervisor_type = registry[h].hypervisor_type
    /\ registry[h].hypervisor_version >= registry[source].hypervisor_version

\* C17: the hypervisor check passes exactly when source and destination have
\* the same hypervisor type and the destination's version is at least the
\* source's.  Different types fail with InvalidHypervisorType whatever the
\* versions are; equal types with an older destination fail with
\* DestinationHypervisorTooOld.  A candidate of the selection loop passes the
\* check under the same condition.
C17_HypervisorCompatibility ==
    [][ /\ (pc = "compatible_get_destination_info"
              /\ registry[source].known /\ registry[destination].known) =>
              /\ HypervisorCompatible(destination) <=>
                    (pc' = "call_livem_checks_on_host" /\ raised' = NotRaised)
              /\ registry[source].hypervisor_type
                    # registry[destination].hypervisor_type
                    <=> FailsWith("InvalidHypervisorType")
              /\ (/\ registry[source].hypervisor_type
                        = registry[destination].hypervisor_type
                  /\ registry[destination].hypervisor_version
                        < registry[source].hypervisor_version)
                    <=> FailsWith("DestinationHypervisorTooOld")
        /\ (pc = "candidate_get_destination_info"
              /\ registry[source].known /\ registry[host].known) =>
              (HypervisorCompatible(host) <=> pc' = "candidate_livem_checks")
      ]_vars

\* A requested destination of another type and with an older version than
\* the source was refused for its type.
C17_Witness ==
    /\ pc = "failed"
    /\ request # NoHost
    /\ raised.kind = "InvalidHypervisorType"
    /\ registry[request].hypervisor_version < registry[source].hypervisor_version

\* --------------------------------------------------------------------- C18
\* The workflow state a position of execute() belongs to.
PhaseOf(p) ==
    CASE p = "check_instance_is_running" -> "Start"
      [] p \in {"check_source_is_up", "choose_destination"} -> "ValidatingSource"
      [] p \in {"check_not_over_max_retries", "get_candidate_destination",
                "candidate_hypervisor", "candidate_get_destination_info",
                "candidate_livem_checks"}
           -> "SelectingDestination"
      [] p \in {"check_destination_is_not_source", "check_destination_is_up",
                "check_destination_has_enough_memory",
                "memory_get_total", "memory_get_used",
                "check_compatible_with_source_hypervisor",
                "compatible_get_destination_info",
                "call_livem_checks_on_host"}
           -> "ValidatingExplicitDestination"
      [] p = "live_migration" -> "Dispatching"
      [] p = "done" -> "Done"
      [] p = "failed" -> "Failed"

NonTerminalPhases ==
    {"Start", "ValidatingSource", "SelectingDestination",
     "ValidatingExplicitDestination", "Dispatching"}

PhaseSteps ==
    {<<"Start", "ValidatingSource">>,
     <<"ValidatingSource", "SelectingDestination">>,
     <<"ValidatingSource", "ValidatingExplicitDestination">>,
     <<"SelectingDestination", "Dispatching">>,
     <<"ValidatingExplicitDestination", "Dispatching">>,
     <<"Dispatching", "Done">>}
        \cup {<<ph, "Failed">> : ph \in NonTerminalPhases}

\* Some step of the task that ends in Failed is possible in this state.
CanFailNow == ENABLED (Next /\ pc' = "failed")

\* C18: every execution moves Start -> ValidatingSource ->
\* (SelectingDestination | ValidatingExplicitDestination) -> Dispatching ->
\* Done, or ends in Failed.  Done is reached only when the trigger call, the
\* last call made, returned without error.  Done and Failed are terminal:
\* nothing changes and no call is made after either.  Failed can be entered
\* from every non-terminal state: from Start and ValidatingSource when a
\* precondition does not hold, and from the other states whenever the
\* scheduler, the precheck or the trigger call is about to be made.
C18_WorkflowStateMachine ==
    /\ [][ /\ PhaseOf(pc') = PhaseOf(pc)
              \/ <<PhaseOf(pc), PhaseOf(pc')>> \in PhaseSteps
           /\ PhaseOf(pc) \in {"Done", "Failed"} => UNCHANGED vars
           /\ PhaseOf(pc') = "Done" =>
                 /\ PhaseOf(pc) = "Dispatching"
                 /\ calls'[Len(calls')].op = TriggerOp
                 /\ calls'[Len(calls')].exc = "None"
                 /\ raised' = NotRaised
         ]_vars
    /\ [](/\ (pc = "check_instance_is_running" /\ ~InstanceRunning) => CanFailNow
          /\ (pc = "check_source_is_up" /\ SourceUnavailable) => CanFailNow
          /\ pc \in {"get_candidate_destination", "candidate_livem_checks",
                     "call_livem_checks_on_host", "live_migration"}
                => CanFailNow)

\* An execution that went through destination selection reached Done.
C18_Witness ==
    /\ pc = "done"
    /\ request = NoHost
    /\ LastCall.op = TriggerOp

\* --------------------------------------------------------------------- C19
\* C19: the trigger call is issued at most once per execution and is the
\* last call the task makes.  If it fails, the failure leaves execute() as
\* the terminal failure: no retry, no further scheduler or precheck call, and
\* the task does not invoke rollback.
C19_TriggerAtMostOnce ==
    /\ Cardinality(CallIdx(TriggerOp)) <= 1
    /\ rollback_raised = "None"
    /\ \A i \in CallIdx(TriggerOp) :
          /\ i = Len(calls)
          /\ calls[i].exc # "None" =>
                (pc = "failed" /\ raised.kind = calls[i].exc)

\* The trigger call was made and failed.
C19_Witness ==
    /\ pc = "failed"
    /\ Len(calls) > 0
    /\ LastCall.op = TriggerOp
    /\ LastCall.exc = "RemoteError"
    /\ Cardinality(CallIdx(PrecheckOp)) >= 1

\* --------------------------------------------------------------------- C20
\* execute() is not running: it has not been called yet, or it has returned
\* or raised.
AtRest == pc \in {"check_instance_is_running", "failed", "done"}

\* C20: rollback() fails loudly in every state of the task, before execute,
\* after a failed execute and after a successful dispatch: it can always be
\* called, it raises NotImplementedError, and it makes no call and leaves
\* destination, migrate_data and all other task state as they were.  (Every
\* step of execute() moves its position, so the steps that keep it are the
\* calls of rollback.)
C20_RollbackFailsLoudly ==
    /\ [][ pc' = pc =>
             /\ rollback_raised' = "NotImplementedError"
             /\ UNCHANGED <<others, block_migration, registry, conf, instance, request, source,
                            destination, migrate_data, attempted_hosts, host,
                            raised, calls>>
         ]_vars
    /\ [](AtRest =>
            ENABLED (NextChecks /\ pc' = pc
                        /\ rollback_raised' = "NotImplementedError"))

\* rollback() was called after a successful dispatch, and the task still
\* holds the destination and the precheck's data.
C20_Witness ==
    /\ pc = "done"
    /\ rollback_raised = "NotImplementedError"
    /\ migrate_data # NoData
    /\ destination # NoHost
    /\ LastCall.op = TriggerOp

\* --------------------------------------------------------------------- C23
LastSchedulerCall == calls[CHOOSE j \in CallIdx(SchedulerOp) :
                              \A k \in CallIdx(SchedulerOp) : k <= j]

\* C23: the trigger call carries the instance's host as source and the
\* request's block-migration flag.  Its destination is the requested one on
\* the explicit path; on the selection path it is the last candidate the
\* scheduler returned, which passed the hypervisor check and whose precheck
\* call, the call just before the trigger, returned; it is none of the
\* rejected candidates.
C23_TriggerArguments ==
    \A i \in CallIdx(TriggerOp) :
        /\ calls[i].src = instance.host
        /\ calls[i].block_migration = block_migration
        /\ request # NoHost => calls[i].host = request
        /\ request = NoHost =>
              /\ CallIdx(SchedulerOp) # {}
              /\ calls[i].host = LastSchedulerCall.host
              /\ calls[i].host \in Hosts
              /\ HypervisorCompatible(calls[i].host)
              /\ calls[i - 1].op = PrecheckOp
              /\ calls[i - 1].host = calls[i].host
              /\ calls[i - 1].exc = "None"
              /\ \A k \in 2 .. Len(attempted_hosts) :
                    attempted_hosts[k] # calls[i].host

\* A block migration was dispatched to the second candidate after the first
\* was rejected.
C23_Witness ==
    /\ pc = "done"
    /\ request = NoHost
    /\ block_migration
    /\ Len(attempted_hosts) = 2
    /\ LastCall.op = TriggerOp
    /\ LastCall.host \notin {NoHost, attempted_hosts[2]}

\* --------------------------------------------------------------------- C29
ServiceOp == "service_get_by_compute_host"

\* The calls of an execution with a requested destination, in order: source
\* liveness; destination liveness; aggregate query and the two compute-node
\* reads of the capacity check; the two compute-node reads of the hypervisor
\* check; the precheck RPC; the trigger call.  (The identity check makes no
\* call.)
ExplicitCallOrder ==
    << <<ServiceOp, source>>, <<ServiceOp, request>>,
       <<AggregateOp, request>>, <<ServiceOp, request>>, <<ServiceOp, request>>,
       <<ServiceOp, source>>, <<ServiceOp, request>>,
       <<PrecheckOp, request>>, <<TriggerOp, request>> >>

\* C29: for an explicit destination the checks run in the order identity,
\* liveness, capacity (aggregate, then memory), hypervisor, precheck RPC.
\* The first check that fails gives the failure its kind, and the calls made
\* are exactly those up to and including that check: no later fetch or RPC.
\* The precheck RPC is the eighth call, after all four local checks passed.
C29_ExplicitChecksInOrder ==
    request # NoHost =>
        /\ Len(calls) <= Len(ExplicitCallOrder)
        /\ \A i \in 1 .. Len(calls) :
              <<calls[i].op, calls[i].host>> = ExplicitCallOrder[i]
        /\ (pc = "failed" /\ InstanceRunning /\ ~SourceUnavailable) =>
              /\ ExpectedLocalFailure # "ok" => raised.kind = ExpectedLocalFailure
              /\ Len(calls) =
                   CASE ExpectedLocalFailure = "UnableToMigrateToSelf" -> 1
                     [] ExpectedLocalFailure = "ComputeServiceUnavailable" -> 2
                     [] ExpectedLocalFailure = "MigrationPreCheckError" ->
                          IF Len(registry[request].aggregates) # 1 THEN 3 ELSE 5
                     [] ExpectedLocalFailure \in {"InvalidHypervisorType",
                                                  "DestinationHypervisorTooOld"} -> 7
                     [] OTHER -> IF LastCall.op = PrecheckOp THEN 8 ELSE 9
        /\ \A i \in CallIdx(PrecheckOp) : ExpectedLocalFailure = "ok"

\* A requested destination passed identity, liveness and capacity and was
\* refused by the hypervisor check, after seven registry calls.
C29_Witness ==
    /\ pc = "failed"
    /\ request # NoHost
    /\ raised.kind = "DestinationHypervisorTooOld"
    /\ Len(calls) = 7

\* --------------------------------------------------------------------- C30
IsCandidate(c) == c.op = SchedulerOp /\ c.host # NoHost

\* The hosts the scheduler has returned so far, in order.
ReturnedCandidates ==
    LET cs == SelectSeq(calls, IsCandidate)
    IN  [i \in 1 .. Len(cs) |-> cs[i].host]

\* _find_destination has been entered.
SelectionStarted ==
    /\ request = NoHost
    /\ pc \notin {"check_instance_is_running", "check_source_is_up",
                  "choose_destination"}
    /\ InstanceRunning /\ ~SourceUnavailable

\* The candidates rejected so far: all those returned, except a last one
\* that is still held (under evaluation, accepted, or the one whose failure
\* ended the workflow).
RejectedSoFar ==
    SubSeq(ReturnedCandidates, 1,
           Len(ReturnedCandidates) - (IF host # NoHost THEN 1 ELSE 0))

\* C30: in the selection loop the attempted hosts are [source] followed by
\* the rejected candidates in the order of their rejection, so the length
\* minus one is the number of candidates rejected so far; the list changes
\* only by appending the candidate that a step rejects (hypervisor mismatch,
\* or an Invalid from its precheck), one entry at a time.
C30_AttemptedHostsAppendOnly ==
    /\ [](SelectionStarted =>
            /\ attempted_hosts = <<source>> \o RejectedSoFar
            /\ Len(attempted_hosts) - 1 = Len(RejectedSoFar))
    /\ [][ attempted_hosts' # attempted_hosts =>
             \/ /\ pc = "choose_destination"
                /\ attempted_hosts' = <<source>>
             \/ /\ pc \in {"candidate_get_destination_info",
                           "candidate_livem_checks"}
                /\ attempted_hosts' = Append(attempted_hosts, host)
                /\ host \in Hosts
                /\ \/ pc = "candidate_get_destination_info"
                        /\ HypervisorMismatch(host)
                   \/ pc = "candidate_livem_checks"
                        /\ calls'[Len(calls')].exc = "Invalid"
         ]_vars

\* Two candidates were rejected one after the other, and the scheduler then
\* had no host left.
C30_Witness ==
    /\ SelectionStarted
    /\ Len(attempted_hosts) = 3
    /\ attempted_hosts[2] # attempted_hosts[3]
    /\ pc = "failed"
    /\ raised.kind = "NoValidHost"
    /\ Cardinality(CallIdx(SchedulerOp)) = 3

\* --------------------------------------------------------------------- C22
\* C22: without a requested destination the selection loop makes at most one
\* scheduler request per host other than the source, plus one, whatever the
\* retry budget, and when it has ended it has ended with an accepted
\* candidate (the precheck returned and the trigger call follows) or with
\* NoValidHost.
C22_SelectionEndsAcceptedOrNoValidHost ==
    request = NoHost =>
        /\ Cardinality(CallIdx(SchedulerOp)) <= Cardinality(Hosts \ {source}) + 1
        /\ (SelectionStarted /\ pc = "failed" /\ NoCallOf({TriggerOp}))
              => raised.kind = "NoValidHost"

\* --------------------------------------------------------------------- C21
\* The two tasks, each with its own attributes, locals and call log.
BothTasks == {Running(RunningId), parked}

\* Everything a task holds stems from its own request and its own calls.
OwnsItsState(t) ==
    LET idx(op) == {i \in 1 .. Len(t.calls) : t.calls[i].op = op} IN
    /\ t.source = t.instance.host
    /\ t.attempted_hosts # <<>> => t.attempted_hosts[1] = t.source
    /\ \A k \in 2 .. Len(t.attempted_hosts) :
          \E i \in idx(SchedulerOp) : t.calls[i].host = t.attempted_hosts[k]
    /\ \A i \in idx(SchedulerOp) :
          \A k \in 1 .. Len(t.calls[i].ignore_hosts) :
              \/ t.calls[i].ignore_hosts[k] = t.source
              \/ \E j \in idx(SchedulerOp) :
                    j < i /\ t.calls[j].host = t.calls[i].ignore_hosts[k]
    /\ t.migrate_data # NoData =>
          \E i \in idx(PrecheckOp) :
              t.calls[i].exc = "None" /\ t.calls[i].migrate_data = t.migrate_data
    /\ t.destination # NoHost =>
          \/ t.destination = t.request
          \/ \E i \in idx(SchedulerOp) : t.calls[i].host = t.destination
    /\ \A i \in idx(TriggerOp) :
          /\ t.calls[i].src = t.source
          /\ t.calls[i].host = t.destination
          /\ t.calls[i].migrate_data = t.migrate_data
          /\ t.calls[i].block_migration = t.block_migration
          /\ t.calls[i - 1].op = PrecheckOp
          /\ t.calls[i - 1].host = t.destination
          /\ t.calls[i - 1].migrate_data = t.migrate_data

\* C21: two workflows for different instances, interleaved at any step, share
\* no mutable state.  Each task's attempted hosts and exclusion lists hold
\* only its own source and candidates its own scheduler requests returned;
\* its destination and migrate_data come from its own request and calls; and
\* a step of one task leaves the other task as it was, so each runs as it
\* would alone against the answers it received.
C21_TasksShareNoState ==
    /\ [](\A t \in BothTasks : OwnsItsState(t))
    /\ [][ \/ parked' = parked
           \/ /\ parked' = Running(RunningId)
              /\ Running(RunningId)' = parked
         ]_vars

\* Both tasks are in their selection loops; each has rejected one candidate,
\* and the host the running task rejected is not in the other task's list.
C21_Witness ==
    /\ parked.task # 0
    /\ Len(attempted_hosts) = 2
    /\ Len(parked.attempted_hosts) = 2
    /\ attempted_hosts[2] \notin {parked.attempted_hosts[1], parked.attempted_hosts[2]}
    /\ parked.attempted_hosts[2] # attempted_hosts[2]
    /\ pc = "get_candidate_destination"
    /\ parked.pc = "get_candidate_destination"

\* --------------------------------------------------------------------- C24
\* C24: after _extend has run on a usage record, its server_usages holds no
\* entry of a fault-tolerance secondary instance, whatever the order of
\* primaries and secondaries in the list.
C24_NoSecondaryLeft ==
    ftu.pc = "done" =>
        \A i \in 1 .. Len(ftu.server_usages) :
            ~FtSecondary(ftu.server_usages[i].instance_id)

\* --------------------------------------------------------------------- C25
\* How often the usage of instance uuid is attached to the entry of instance
\* primary in the list l.
TimesAttached(l, primary, uuid) ==
    Cardinality({<<i, j>> \in (1 .. Len(l)) \X (1 .. MaxUsages + 1) :
                    /\ l[i].instance_id = primary
                    /\ j <= Len(l[i].ft_secondary_usage)
                    /\ l[i].ft_secondary_usage[j].instance_id = uuid})

Listed(l, uuid) == \E i \in 1 .. Len(l) : l[i].instance_id = uuid

\* C25: _extend moves usage data without losing any.  Every entry of a
\* secondary instance that was in server_usages, and whose primary has an
\* entry there, is afterwards attached exactly once to the entry of its
\* primary, as it was; and the entries of the other instances are still
\* there, in their order, changed only by what was attached to them.
C25_SecondaryUsageMoved ==
    ftu.pc = "done" =>
        /\ \A i \in 1 .. Len(ftu.input) :
              LET uuid == ftu.input[i].instance_id IN
              (FtSecondary(uuid) /\ Listed(ftu.input, PrimaryOf(uuid))) =>
                  /\ TimesAttached(ftu.server_usages, PrimaryOf(uuid), uuid) = 1
                  /\ \A p \in UsageInstances \ {PrimaryOf(uuid)} :
                        TimesAttached(ftu.server_usages, p, uuid) = 0
        /\ LET keep(e) == ~FtSecondary(e.instance_id)
               before == SelectSeq(ftu.input, keep)
               after  == SelectSeq(ftu.server_usages, keep)
           IN  /\ Len(after) = Len(before)
               /\ \A i \in 1 .. Len(before) :
                     after[i].instance_id = before[i].instance_id

\* --------------------------------------------------------------------- C26
HasEvent(events, field, value) ==
    \E i \in 1 .. Len(events) : events[i][field] = value

\* C26: _wait_for_job returns a list of progress events only if the job
\* completed successfully: the list it returns holds a job-end event and no
\* event with EventStatus error, wherever such an event stands relative to
\* the job-end event; a polled list with an error event makes it raise
\* Error.
C26_ReturnsOnlySuccessfulJob ==
    /\ netapp.pc = "returned" =>
          /\ HasEvent(netapp.result, "EventType", "job-end")
          /\ ~HasEvent(netapp.result, "EventStatus", "error")
    /\ (/\ netapp.pc \in {"returned", "failed"}
        /\ netapp.raised # "WebFault"
        /\ HasEvent(netapp.event_list, "EventStatus", "error"))
          => (netapp.pc = "failed" /\ netapp.raised = "Error")

\* --------------------------------------------------------------------- C27
CountOf(requests, name) ==
    Cardinality({k \in 1 .. Len(requests) : requests[k] = name})

\* The LUN maps the filer holds between a LUN and the initiator's openstack
\* igroup.
MapsOf(n, lunpath, initiator_name) ==
    {m \in n.maps : /\ m.path = <<"/vol/", lunpath>>
                    /\ m.igroup = <<"openstack-", initiator_name>>}

HasOpenstackIgroup(n, initiator_name) ==
    \E k \in 1 .. Len(n.igroups) :
        /\ n.igroups[k].name[1] = "openstack-"
        /\ initiator_name \in n.igroups[k].initiators

\* A masking call returns (or raises) in this step.
MaskingStep(lunpath, initiator_name) ==
    /\ Len(netapp'.log) = Len(netapp.log) + 1
    /\ netapp'.log[Len(netapp'.log)].op = "map"
    /\ netapp'.log[Len(netapp'.log)].lunpath = lunpath
    /\ netapp'.log[Len(netapp'.log)].initiator = initiator_name

\* A thread sends igroup-create for the initiator in this step.
SendsIgroupCreate(initiator_name) ==
    \E t \in MapThreads :
        LET before == netapp.running[t].requests
            after == netapp'.running[t].requests
        IN  /\ Len(after) = Len(before) + 1
            /\ after[Len(after)] = "igroup-create"
            /\ netapp'.running[t].initiator = initiator_name

\* C27: _ensure_initiator_mapped is idempotent. Every call sends lun-map and
\* igroup-create at most once, and one that sends no lun-map returns the
\* number of a map the filer holds. For calls made in sequence (no request
\* of one call between the requests of another): a call for a LUN
\* already mapped to the initiator's openstack igroup sends no lun-map and no
\* igroup-create and returns the existing LUN number; otherwise it sends
\* igroup-create only if the initiator has no openstack igroup and sends
\* lun-map once; the call does not raise, after it there is exactly one map,
\* and a second call right after the first returns the same number.
C27_EnsureInitiatorMappedIdempotent ==
    [][/\ \A l \in LunPaths, i \in Initiators : MaskingStep(l, i) =>
            LET e == netapp'.log[Len(netapp'.log)]
            IN  /\ CountOf(e.requests, "lun-map") <= 1
                /\ CountOf(e.requests, "igroup-create") <= 1
                /\ CountOf(e.requests, "lun-map") = 0 /\ e.result >= 0
                      => \E m \in MapsOf(netapp, l, i) : e.result = m.lun_id
       /\ ~netapp'.interleaved =>
        \A l \in LunPaths, i \in Initiators :
          /\ SendsIgroupCreate(i) => ~HasOpenstackIgroup(netapp, i)
          /\ MaskingStep(l, i) =>
            LET e == netapp'.log[Len(netapp'.log)]
                before == MapsOf(netapp, l, i)
                after == MapsOf(netapp', l, i)
            IN  /\ e.result >= 0
                /\ before # {} =>
                      /\ CountOf(e.requests, "lun-map") = 0
                      /\ CountOf(e.requests, "igroup-create") = 0
                      /\ \E m \in before : e.result = m.lun_id
                      /\ netapp'.maps = netapp.maps
                /\ before = {} =>
                      /\ CountOf(e.requests, "lun-map") = 1
                      /\ CountOf(e.requests, "igroup-create") <= 1
                /\ Cardinality(after) = 1
                /\ \E m \in after : e.result = m.lun_id
                /\ (/\ netapp.log # <<>>
                    /\ netapp.log[Len(netapp.log)].op = "map"
                    /\ netapp.log[Len(netapp.log)].lunpath = l
                    /\ netapp.log[Len(netapp.log)].initiator = i)
                   => /\ e.result = netapp.log[Len(netapp.log)].result
                      /\ CountOf(e.requests, "lun-map") = 0]_vars

\* Two calls in sequence for the same LUN and initiator, the first of which
\* created the igroup and the map, next to a map of another LUN.
C27_Witness ==
    /\ ~netapp.interleaved
    /\ Len(netapp.log) = 3
    /\ netapp.log[1].op = "map" /\ netapp.log[1].lunpath = 2
    /\ netapp.log[2].op = "map" /\ netapp.log[2].lunpath = 1
    /\ netapp.log[3].op = "map" /\ netapp.log[3].lunpath = 1
    /\ \A k \in 1 .. 3 : netapp.log[k].initiator = 1
    /\ netapp.log[2].result = 1
    /\ netapp.log[3].result = 1
    /\ CountOf(netapp.log[1].requests, "igroup-create") = 1
    /\ CountOf(netapp.log[3].requests, "lun-map") = 0

\* --------------------------------------------------------------------- C28
NoUserHeader(e) ==
    e.headers.X_USER_ID = "None" /\ e.headers.X_USER = "None"

Rejected401(e) ==
    /\ e.status = "401 Unauthorized"
    /\ ~e.app_invoked
    /\ e.context_user_id = "None"

Served200(e) ==
    /\ e.status = "200 OK"
    /\ e.app_invoked
    /\ e.context_user_id = (IF e.headers.X_USER_ID # "None"
                            THEN e.headers.X_USER_ID ELSE e.headers.X_USER)

Refused500(e) ==
    /\ e.status = "500 Internal Server Error"
    /\ ~e.app_invoked
    /\ e.context_user_id = "None"

\* C28: a request with neither X_USER_ID nor X_USER never reaches the
\* application and gets no context; with a service catalog that parses it is
\* answered '401 Unauthorized', with one that does not it is answered 401 or
\* '500 Internal Server Error'. A request with either header and a service
\* catalog that parses reaches the application and is answered '200 OK', the
\* context holding X_USER_ID when both headers are present. A request with
\* either header and a catalog that is not valid JSON is answered 500 and
\* does not reach the application.
C28_UserHeaderRequired ==
    \A k \in 1 .. Len(auth.log) :
        LET e == auth.log[k]
            parses == e.headers.X_SERVICE_CATALOG = "{}"
        IN  /\ (NoUserHeader(e) /\ parses) => Rejected401(e)
            /\ (NoUserHeader(e) /\ ~parses)
                  => (Rejected401(e) \/ Refused500(e))
            /\ (~NoUserHeader(e) /\ parses) => Served200(e)
            /\ (~NoUserHeader(e) /\ ~parses) => Refused500(e)

\* C28 as the specification states it: every request with either header is
\* answered '200 OK'.
C28_AsStated ==
    \A k \in 1 .. Len(auth.log) :
        LET e == auth.log[k]
        IN  /\ NoUserHeader(e) => Rejected401(e)
            /\ ~NoUserHeader(e) => Served200(e)

\* A rejected request, then one with both headers, then one with X_USER and
\* a catalog that is not JSON.
C28_Witness ==
    /\ Len(auth.log) = 3
    /\ NoUserHeader(auth.log[1])
    /\ auth.log[1].headers.X_SERVICE_CATALOG = "{}"
    /\ auth.log[1].status = "401 Unauthorized"
    /\ auth.log[2].headers.X_USER_ID = "testuserid"
    /\ auth.log[2].headers.X_USER = "testuser"
    /\ auth.log[2].headers.X_SERVICE_CATALOG = "{}"
    /\ auth.log[2].context_user_id = "testuserid"
    /\ auth.log[2].status = "200 OK"
    /\ auth.log[3].headers.X_USER_ID = "None"
    /\ auth.log[3].headers.X_USER = "testuser"
    /\ auth.log[3].headers.X_SERVICE_CATALOG = "bad json"
    /\ auth.log[3].status = "500 Internal Server Error"
    /\ ~auth.log[3].app_invoked

\* --------------------------------------------------------------------- C31
IsSchedulerCall(c) == c.op = "select_hosts"

\* The scheduler requests made so far, in order.
SchedulerCalls == SelectSeq(calls, IsSchedulerCall)

\* C31: every scheduler request carries the attempted hosts as ignore_hosts:
\* the k-th request carries the source host followed by the k-1 candidates
\* returned (and rejected) before it, so each request carries the list of
\* the request before it plus one host; and while the request is the last
\* call made, its list is the task's attempted_hosts.
C31_ExclusionListIsAttemptedHosts ==
    /\ \A k \in 1 .. Len(SchedulerCalls) :
          /\ Len(SchedulerCalls[k].ignore_hosts) = k
          /\ SchedulerCalls[k].ignore_hosts[1] = instance.host
          /\ \A i \in 1 .. k - 1 :
                SchedulerCalls[k].ignore_hosts[i + 1] = SchedulerCalls[i].host
    /\ \A k \in 1 .. Len(SchedulerCalls) - 1 :
          /\ Len(SchedulerCalls[k + 1].ignore_hosts)
                = Len(SchedulerCalls[k].ignore_hosts) + 1
          /\ SubSeq(SchedulerCalls[k + 1].ignore_hosts, 1, k)
                = SchedulerCalls[k].ignore_hosts
    /\ (calls # <<>> /\ calls[Len(calls)].op = "select_hosts")
          => calls[Len(calls)].ignore_hosts = attempted_hosts

\* A third scheduler request, made after two candidates were rejected.
C31_Witness ==
    /\ Len(SchedulerCalls) = 3
    /\ Len(SchedulerCalls[3].ignore_hosts) = 3
    /\ SchedulerCalls[3].ignore_hosts[2] = SchedulerCalls[1].host
    /\ SchedulerCalls[3].ignore_hosts[3] = SchedulerCalls[2].host
    /\ SchedulerCalls[3].exc = "NoValidHost"
    /\ pc = "failed"

\* --------------------------------------------------------------------- C39
\* C39: a workflow that fails with NoValidHost because of the retry budget
\* has made at least one scheduler request, whatever the value of
\* migrate_max_retries (a negative value other than -1 included).
C39_BudgetFailureFollowsARequest ==
    (raised.kind = "NoValidHost" /\ raised.reason = "max_retries")
        => \E i \in 1 .. Len(calls) : calls[i].op = "select_hosts"

\* --------------------------------------------------------------------- C40
IsGoodPrecheck(c) == c.op = "check_can_live_migrate_destination" /\ c.exc = "None"

\* C40: migrate_data is None until a precheck call has returned without
\* error and is then what that call returned; it is assigned only by a step
\* whose precheck call returned, and a step whose precheck call raised (a
\* rejected candidate's included) leaves it as it was.
C40_FailedPrecheckLeavesMigrateData ==
    /\ [](LET good == SelectSeq(calls, IsGoodPrecheck)
          IN  IF good = <<>> THEN migrate_data = "None"
              ELSE migrate_data = good[Len(good)].migrate_data)
    /\ [][(Len(calls') > Len(calls)
             /\ calls'[Len(calls')].op = "check_can_live_migrate_destination")
          => IF calls'[Len(calls')].exc = "None"
             THEN migrate_data' = calls'[Len(calls')].migrate_data
             ELSE migrate_data' = migrate_data]_vars
    /\ [][migrate_data' # migrate_data
          => /\ Len(calls') = Len(calls) + 1
             /\ calls'[Len(calls')].op = "check_can_live_migrate_destination"
             /\ calls'[Len(calls')].exc = "None"]_vars

\* A candidate's precheck rejected it and left migrate_data None; the
\* precheck of the next candidate returned data.
C40_Witness ==
    /\ request = NoHost
    /\ pc = "live_migration"
    /\ migrate_data = "md_b"
    /\ Len(attempted_hosts) = 2
    /\ \E i \in 1 .. Len(calls) :
          /\ calls[i].op = "check_can_live_migrate_destination"
          /\ calls[i].exc = "Invalid"
          /\ calls[i].host = attempted_hosts[2]

\* --------------------------------------------------------------------- C34
RequestsNamed(name) ==
    {k \in 1 .. Len(netapp.requests) : netapp.requests[k].name = name}

\* C34: once IterStart has returned a tag, the function sends IterEnd at
\* most once, and when it has returned or raised it has sent IterEnd exactly
\* once, with the tag IterStart returned, after its last IterNext: whether
\* the list was exhausted, a match ended the walk, or an IterNext raised.
C34_IteratorClosedOnce ==
    /\ Cardinality(RequestsNamed("IterEnd")) <= 1
    /\ \A k \in RequestsNamed("IterEnd") \cup RequestsNamed("IterNext") :
          /\ netapp.requests[1].name = "IterStart"
          /\ netapp.requests[1].exc = "None"
          /\ netapp.requests[k].tag = netapp.requests[1].tag
    /\ (/\ netapp.pc \in {"returned", "raised"}
        /\ netapp.requests[1].exc = "None")
          => /\ Cardinality(RequestsNamed("IterEnd")) = 1
             /\ netapp.requests[Len(netapp.requests)].name = "IterEnd"

\* _get_lun_id left by an error of its second IterNext, the iterator closed.
C34_Witness ==
    /\ netapp.kind = "DatasetMemberListInfo"
    /\ netapp.pc = "raised"
    /\ Len(netapp.requests) = 4
    /\ netapp.requests[3].name = "IterNext"
    /\ netapp.requests[3].exc = "WebFault"
    /\ netapp.requests[4].name = "IterEnd"
    /\ netapp.requests[4].exc = "None"
    /\ netapp.requests[4].tag = "tag_b"

\* --------------------------------------------------------------------- C33
\* The lock was the subject of a request `name` that the server completed.
Completed(name, lock_id) ==
    \E k \in 1 .. Len(netapp.requests) :
        /\ netapp.requests[k].name = name
        /\ netapp.requests[k].lock = lock_id
        /\ netapp.requests[k].exc = "None"

\* C33: when _provision or _remove_destroy has returned or raised, the edit
\* lock it obtained is closed: DatasetEditCommit completed for it, or
\* DatasetEditRollback completed for it and the operation raised Error; the
\* lock is not left open, and commit and rollback never both completed for
\* one lock.
C33_EditLockAlwaysClosed ==
    /\ \A k \in 1 .. Len(netapp.done) :
          LET d == netapp.done[k]
          IN  d.lock # 0 =>
                /\ netapp.locks[d.lock] # "open"
                /\ \/ Completed("DatasetEditCommit", d.lock)
                   \/ /\ Completed("DatasetEditRollback", d.lock)
                      /\ d.raised = "Error"
    /\ \A id \in 1 .. Len(netapp.locks) :
          ~(Completed("DatasetEditCommit", id)
              /\ Completed("DatasetEditRollback", id))

\* --------------------------------------------------------------------- C35
\* C35: no trigger call names the instance's own host as dest, on the
\* explicit path and on the selection path, whatever host the scheduler
\* answers (the source host, although it is in ignore_hosts, included).
C35_NeverDispatchesToSource ==
    \A i \in 1 .. Len(calls) :
        calls[i].op = "live_migration" => calls[i].host # instance.host

\* --------------------------------------------------------------------- C36
\* C36: the attempted hosts hold no host twice, so the length minus one is
\* the number of distinct hosts rejected, whatever hosts the scheduler
\* answers (hosts already excluded included).
C36_AttemptedHostsIsASet ==
    /\ \A i, j \in 1 .. Len(attempted_hosts) :
          i # j => attempted_hosts[i] # attempted_hosts[j]
    /\ attempted_hosts # <<>> =>
          Len(attempted_hosts) - 1 =
             Cardinality({attempted_hosts[i] : i \in 2 .. Len(attempted_hosts)})

\* --------------------------------------------------------------------- C32
\* The hypervisor facts the registry holds for host h now.
InfoNow(h) ==
    [hypervisor_type |-> registry[h].hypervisor_type,
     hypervisor_version |-> registry[h].hypervisor_version]

\* The hypervisor facts of host h as the registry holds them now are
\* compatible with those fetched for the instance's host in this check.
CompatibleNow(h) ==
    /\ registry[h].known
    /\ registry[h].hypervisor_type = live.source_info.hypervisor_type
    /\ live.source_info.hypervisor_version <= registry[h].hypervisor_version

\* The memory the figures leave, in tenths of a MB, exceeds memory_mb.
LeavesRoom(total, ratio_x10, used) ==
    total * ratio_x10 - 10 * used > 10 * instance.memory_mb

\* C32: no check works on cached host facts. Every hypervisor check begins
\* by fetching the source's facts as the registry holds them at that step; a
\* candidate's check then passes exactly when the candidate's facts in the
\* registry at the step of its fetch are compatible with them, and so does
\* that of a requested destination. The memory check takes the ratio of the
\* aggregate the registry holds at the step of the aggregate query, and the
\* total and the used memory that the registry holds for the destination at
\* the step of each read, and passes exactly when the figures so read leave
\* more than memory_mb: an update made before a read is seen by it, and a
\* host whose record is gone at a read ends the check with NotFound.
C32_HostFactsNeverCached ==
    /\ [][(pc \in {"candidate_hypervisor",
                   "check_compatible_with_source_hypervisor"} /\ pc' # pc) =>
             IF registry[instance.host].known
               THEN /\ live'.source_info = InfoNow(instance.host)
                    /\ pc' # "failed"
               ELSE FailsWith("NotFound")
         ]_vars
    /\ [][pc = "candidate_get_destination_info" /\ pc' # pc =>
             /\ (pc' = "candidate_livem_checks") <=> CompatibleNow(host)
             /\ (attempted_hosts' # attempted_hosts) <=>
                   (registry[host].known /\ ~CompatibleNow(host))
             /\ FailsWith("NotFound") <=> ~registry[host].known
         ]_vars
    /\ [][pc = "compatible_get_destination_info" /\ pc' # pc =>
             /\ (pc' = "call_livem_checks_on_host") <=> CompatibleNow(destination)
             /\ FailsWith("NotFound") <=> ~registry[destination].known
         ]_vars
    /\ [][pc = "check_destination_has_enough_memory" /\ pc' # pc =>
             /\ (pc' = "memory_get_total") <=>
                   Len(registry[destination].aggregates) = 1
             /\ pc' = "memory_get_total" =>
                   live'.ram_ratio_x10 =
                      registry[destination].aggregates[1].ram_allocation_ratio_x10
         ]_vars
    /\ [][pc = "memory_get_total" /\ pc' # pc =>
             IF registry[destination].known
               THEN /\ pc' = "memory_get_used"
                    /\ live'.total = registry[destination].memory_mb
               ELSE FailsWith("NotFound")
         ]_vars
    /\ [][pc = "memory_get_used" /\ pc' # pc =>
             IF registry[destination].known
               THEN /\ live'.used = registry[destination].memory_mb_used
                    /\ (pc' = "check_compatible_with_source_hypervisor") <=>
                          LeavesRoom(live.total, live.ram_ratio_x10,
                                     registry[destination].memory_mb_used)
               ELSE FailsWith("NotFound")
         ]_vars

\* The first candidate was rejected by its precheck; the other host, of the
\* right hypervisor type until then, was updated to another type, and the
\* candidate check that followed rejected it.
C32_Witness ==
    /\ Len(attempted_hosts) = 3
    /\ live.updates = 1
    /\ live.last_update[1].host = attempted_hosts[3]
    /\ live.last_update[1].was.hypervisor_type = "kvm"
    /\ registry[attempted_hosts[3]].hypervisor_type = "xen"
    /\ \E i \in 1 .. Len(calls) :
          /\ calls[i].op = "check_can_live_migrate_destination"
          /\ calls[i].host = attempted_hosts[2]
          /\ calls[i].exc = "Invalid"
    /\ \A i \in 1 .. Len(calls) :
          calls[i].op = "check_can_live_migrate_destination"
             => calls[i].host # attempted_hosts[3]

\* --------------------------------------------------------------------- C38
\* C38: the total and the used memory that a memory check has combined were
\* the destination's figures in the registry at one instant during the
\* check, also when the registry was updated during the check.
C38_VerdictFromOneSnapshot ==
    live.used # -1 => <<live.total, live.used>> \in live.snapshots

\* --------------------------------------------------------------------- C37
\* C37: when a task that was asked for a destination makes the trigger
\* call, the destination's memory in the registry at that step, total times
\* ratio minus used, still exceeds the instance's memory_mb, also while
\* another task migrates to the same destination; so two tasks do not both
\* dispatch on free memory that holds one instance only.
C37_CapacityHoldsAtDispatch ==
    [][(/\ request # 0
        /\ parked' = parked
        /\ Len(calls') = Len(calls) + 1
        /\ calls'[Len(calls')].op = "live_migration")
       => LET d == calls'[Len(calls')].host
          IN  registry[d].memory_mb
                  * registry[d].aggregates[1].ram_allocation_ratio_x10
                - 10 * registry[d].memory_mb_used
              > 10 * instance.memory_mb]_vars

====
